---- MODULE Spec2Model ----
(***************************************************************************)
(* A model of the coordination and replication engine of the Cassandra-    *)
(* like datastore in cassandra_node/src: the consistent-hash ring and the  *)
(* Simple replication strategy, the coordinator's fan-out with tunable     *)
(* consistency, read repair, hinted handoff and the gossip merge.          *)
(*                                                                         *)
(* Node ids are the naturals of NodeIds, ordered as the code orders the    *)
(* node_id strings.  Column values are small naturals (the code keeps      *)
(* them as strings and compares them numerically when both sides parse as  *)
(* integers, which all values of the model do).  A `_timestamp` is the     *)
(* number of seconds the code parses it to.                                *)
(***************************************************************************)
EXTENDS Integers, Sequences, FiniteSets, TLC

VARIABLES
    gossip_table,   \* Node.gossip_table: per node, a sequence of GossipInformation
    up,             \* per node, whether its peer endpoint accepts connections
    keyspaces,      \* Node.keyspaces: per node, the replication factor of keyspace ks (0: none)
    data,           \* Node.data: per node, the table ks.t (schema and rows)
    hints,          \* Node.hints: per node, per peer id, the queue of buffered messages
    op,             \* the client statement a coordinator is serving, with its threads
                    \* and a record of what happened to it (counted, failed_sends,
                    \* reached, repaired)
    now,            \* the wall clock in seconds, as add_timestamp_to_*_message reads it
    drain,          \* per node, the send_hints threads: spawned ones and the running one
    scn,            \* the inputs the clients of this run draw from
    probe,          \* inputs and results of the routing functions applied on node 1
    stops,          \* the number of node processes that have ended so far
    connection      \* a client connection of the native protocol: the Connection
                    \* of native_protocol.rs, the bytes the client has written
                    \* and the server has not read, and a record of what was
                    \* sent and served

vars == <<gossip_table, up, keyspaces, data, hints, op, now, drain, scn, probe, stops,
          connection>>

\* ------------------------------------------------------------------ bounds

\* The node ids of the cluster.
NodeIds == {1, 2, 3}

\* The largest replication factor a keyspace of the model is created with.
MaxRF == 3

\* The largest partition-key value drawn for the routing functions; with
\* hash_vector below, the values 0..15 reach every hash of the ring.
MaxKey == 15

\* The number of statements the clients of a run issue.
MaxOps == 2

\* The latest second the wall clock reaches in the runs that compare
\* timestamps, and in the runs that do not.
MaxTime == 2

CoordMaxTime == 1

\* The number of statements of a run that ends in a read repair.
MaxRepairOps == 3

\* The number of times a node process ends in a run.
MaxStops == 2

\* The number of statements of a run of the hinted handoff.
MaxHandoffOps == 3

\* The age, in units of twenty seconds, from which the failure detector of
\* Node::gossip marks a silent peer Dead (phi < 0.0000000015 at twenty
\* seconds and more), and the age at which the model stops counting.
DeadAfter == 1

\* The number of send_hints threads of a node that wait for the hints lock.
MaxThreads == 2

\* u64::MAX of consistent_hashing.rs, scaled to 4 bits.  2^4 - 1 and 2^64 - 1
\* leave the same remainder modulo every number of nodes up to 8, so the ring
\* of the model has a tail (hashes above N * (MAX / N)) for exactly the node
\* counts for which the ring of the code has one.
U64_MAX == 15

\* ------------------------------------------------------------ consistency

\* A faulty required_nodes: QUORUM as half of the nodes, without the + 1.
required_nodes_half(consistency, nodes_to_resend_query) ==
    CASE consistency = "One" -> 1
      [] consistency = "Quorum" -> nodes_to_resend_query \div 2
      [] consistency = "All" -> nodes_to_resend_query

\* Consistency::required_nodes
required_nodes(consistency, nodes_to_resend_query) ==
    CASE consistency = "One" -> 1
      [] consistency = "Quorum" -> (nodes_to_resend_query \div 2) + 1
      [] consistency = "All" -> nodes_to_resend_query

\* ------------------------------------------------------------------- ring

Min(a, b) == IF a < b THEN a ELSE b

\* ConsistentHash::hash_vector.  The code hashes the Debug rendering of the
\* vector with DefaultHasher (SipHash with fixed keys): a fixed function of
\* the vector, sensitive to every element and to the length.  Its stand-in
\* folds the elements with an odd multiplier, so that single-element vectors
\* 0..15 reach every hash once.
RECURSIVE hash_vector(_)
hash_vector(partition_keys) ==
    IF partition_keys = <<>>
    THEN 0
    ELSE LET n == Len(partition_keys)
             h == hash_vector(SubSeq(partition_keys, 1, n - 1))
         IN (7 * (h + partition_keys[n]) + 1) % (U64_MAX + 1)

NoNode == 0

\* ConsistentHash::get_node_id: the first range i (0-based) with
\* hashed <= (i + 1) * range_len, then `offset` entries further, wrapping.
\* NoNode stands for Err("Error hashing partition keys to get node").
get_node_id(partition_keys, table, offset) ==
    LET num_nodes == Len(table)
        range_len == U64_MAX \div num_nodes
        hashed    == hash_vector(partition_keys)
        hits      == {i \in 0..(num_nodes - 1) : hashed <= (i + 1) * range_len}
    IN IF hits = {}
       THEN NoNode
       ELSE LET i == CHOOSE x \in hits : \A y \in hits : x <= y
            IN IF i + offset < num_nodes
               THEN table[i + offset + 1].node_id
               ELSE table[i + offset - num_nodes + 1].node_id

\* ReplicationStrategy::get_replica_nodes, SimpleStrategy arm: one node per
\* offset 0..min(rf, len)-1; an error at any offset empties the result.
get_replica_nodes(replication_factor, partition_keys, table) ==
    LET number_of_replicas == Min(replication_factor, Len(table))
        ids == [i \in 1..number_of_replicas |->
                    get_node_id(partition_keys, table, i - 1)]
    IN IF \E i \in 1..number_of_replicas : ids[i] = NoNode THEN <<>> ELSE ids

\* ------------------------------------------------------------- expressions

\* query_parser::expression::Operand
Column(name) == [kind |-> "Column", value |-> name]
Integer(n) == [kind |-> "Integer", value |-> n]

\* query_parser::expression::Expression
True == [tag |-> "True"]
Comparison(l, operator, r) == [tag |-> "Comparison", left |-> l, operator |-> operator, right |-> r]
And(l, r) == [tag |-> "And", left |-> l, right |-> r]
Or(l, r) == [tag |-> "Or", left |-> l, right |-> r]
Not(r) == [tag |-> "Not", right |-> r]

None == [some |-> FALSE]
Some(x) == [some |-> TRUE, value |-> x]

\* Whether `e` is Comparison { left: Column(_), operator: "=", right: a literal }.
ColumnEqualsValue(e) ==
    /\ e.tag = "Comparison"
    /\ e.left.kind = "Column"
    /\ e.right.kind \in {"String", "Integer"}
    /\ e.operator = "="

\* extract_value_supposing_column_equals_value: the literal of `column = value`
\* or of the left operand of an And of that shape; the column name is not read.
extract_value_supposing_column_equals_value(expression) ==
    IF ColumnEqualsValue(expression)
    THEN Some(expression.right.value)
    ELSE IF expression.tag = "And" /\ ColumnEqualsValue(expression.left)
    THEN Some(expression.left.right.value)
    ELSE None

\* evaluate_operand: a column missing from the row is an error.
evaluate_operand(operand, row) ==
    IF operand.kind = "Column"
    THEN IF operand.value \in DOMAIN row THEN Some(row[operand.value]) ELSE None
    ELSE Some(operand.value)

\* evaluate_expression: "true", "false" or "err"; an error of either side of
\* And / Or is the error of the whole (the `?` of the code).
RECURSIVE evaluate_expression(_, _)
evaluate_expression(expression, row) ==
    CASE expression.tag = "True" -> "true"
      [] expression.tag = "And" ->
            LET l == evaluate_expression(expression.left, row)
                r == evaluate_expression(expression.right, row)
            IN IF l = "err" \/ r = "err" THEN "err"
               ELSE IF l = "true" /\ r = "true" THEN "true" ELSE "false"
      [] expression.tag = "Or" ->
            LET l == evaluate_expression(expression.left, row)
                r == evaluate_expression(expression.right, row)
            IN IF l = "err" \/ r = "err" THEN "err"
               ELSE IF l = "true" \/ r = "true" THEN "true" ELSE "false"
      [] expression.tag = "Not" ->
            LET r == evaluate_expression(expression.right, row)
            IN IF r = "err" THEN "err" ELSE IF r = "true" THEN "false" ELSE "true"
      [] expression.tag = "Comparison" ->
            LET l == evaluate_operand(expression.left, row)
                r == evaluate_operand(expression.right, row)
            IN IF ~l.some \/ ~r.some THEN "err"
               ELSE LET holds ==
                        CASE expression.operator = "=" -> l.value = r.value
                          [] expression.operator = ">" -> l.value > r.value
                          [] expression.operator = "<" -> l.value < r.value
                          [] expression.operator = ">=" -> l.value >= r.value
                          [] expression.operator = "<=" -> l.value <= r.value
                    IN IF holds THEN "true" ELSE "false"

\* ------------------------------------------------------------------ tables

\* The columns a table of the model may declare; Table::new adds _timestamp.
NoTable == [exists |-> FALSE]

\* Table::new
NewTable(partition_key_columns, clustering_key_columns, columns) ==
    [exists |-> TRUE,
     partition_key_columns |-> partition_key_columns,
     clustering_key_columns |-> clustering_key_columns,
     columns |-> columns \cup {"_timestamp"},
     partitions |-> << >>]

\* The values of `cols` in `row`, in order (the key vector of the row).
KeyVector(cols, row) == [i \in 1..Len(cols) |-> row[cols[i]]]

HasAll(cols, row) == \A i \in 1..Len(cols) : cols[i] \in DOMAIN row

\* A faulty Table::insert: the partition of a row is put into the table
\* before Partition::insert has looked for the clustering key.
TableInsertPartitionFirst(table, row) ==
    IF \/ ~(DOMAIN row \subseteq table.columns)
       \/ ~HasAll(table.partition_key_columns, row)
    THEN [ok |-> FALSE, table |-> table]
    ELSE LET pk == KeyVector(table.partition_key_columns, row)
             old == IF pk \in DOMAIN table.partitions
                    THEN table.partitions[pk] ELSE << >>
         IN IF ~HasAll(table.clustering_key_columns, row)
            THEN [ok |-> FALSE,
                  table |-> [table EXCEPT !.partitions = (pk :> old) @@ table.partitions]]
            ELSE LET ck == KeyVector(table.clustering_key_columns, row)
                 IN [ok |-> TRUE,
                     table |-> [table EXCEPT !.partitions =
                                    (pk :> ((ck :> row) @@ old)) @@ table.partitions]]

\* A faulty Table::insert: the row of the same keys keeps the columns that
\* the new row does not have.
TableInsertKeepingColumns(table, row) ==
    IF \/ ~(DOMAIN row \subseteq table.columns)
       \/ ~HasAll(table.partition_key_columns, row)
       \/ ~HasAll(table.clustering_key_columns, row)
    THEN [ok |-> FALSE, table |-> table]
    ELSE LET pk == KeyVector(table.partition_key_columns, row)
             ck == KeyVector(table.clustering_key_columns, row)
             old == IF pk \in DOMAIN table.partitions
                    THEN table.partitions[pk] ELSE << >>
             merged == IF ck \in DOMAIN old THEN row @@ old[ck] ELSE row
         IN [ok |-> TRUE,
             table |-> [table EXCEPT !.partitions =
                            (pk :> ((ck :> merged) @@ old)) @@ table.partitions]]

\* Table::insert with Partition::insert: unknown column, missing partition
\* key and missing clustering key are errors that leave the table as it was;
\* otherwise the row replaces the row of the same keys in full.
TableInsert(table, row) ==
    IF \/ ~(DOMAIN row \subseteq table.columns)
       \/ ~HasAll(table.partition_key_columns, row)
       \/ ~HasAll(table.clustering_key_columns, row)
    THEN [ok |-> FALSE, table |-> table]
    ELSE LET pk == KeyVector(table.partition_key_columns, row)
             ck == KeyVector(table.clustering_key_columns, row)
             old == IF pk \in DOMAIN table.partitions
                    THEN table.partitions[pk] ELSE << >>
         IN [ok |-> TRUE,
             table |-> [table EXCEPT !.partitions =
                            (pk :> ((ck :> row) @@ old)) @@ table.partitions]]

\* The order of Vec<String> keys in the BTreeMap of a partition: lexicographic.
RECURSIVE LexLess(_, _)
LexLess(a, b) ==
    IF a = <<>> THEN b # <<>>
    ELSE IF b = <<>> THEN FALSE
    ELSE IF Head(a) # Head(b) THEN Head(a) < Head(b)
    ELSE LexLess(Tail(a), Tail(b))

\* The elements of a set of key vectors in ascending order.
RECURSIVE Ascending(_)
Ascending(S) ==
    IF S = {} THEN <<>>
    ELSE LET m == CHOOSE x \in S : \A y \in S \ {x} : LexLess(x, y)
         IN <<m>> \o Ascending(S \ {m})

\* Partition::get_vector_of_rows: the rows of a partition by clustering key.
PartitionRows(partition) ==
    LET cks == Ascending(DOMAIN partition)
    IN [i \in 1..Len(cks) |-> partition[cks[i]]]

\* The sequences that hold every element of S once: the orders in which a
\* HashMap of the code may iterate its keys.
RECURSIVE Orders(_)
Orders(S) ==
    IF S = {} THEN {<<>>}
    ELSE UNION {{<<x>> \o o : o \in Orders(S \ {x})} : x \in S}

\* The (partition key, clustering key) pairs of a table in the order a scan
\* visits them when it takes the partitions in `order`.
RECURSIVE ScanKeys(_, _)
ScanKeys(table, order) ==
    IF order = <<>> THEN <<>>
    ELSE LET pk == Head(order)
             cks == Ascending(DOMAIN table.partitions[pk])
         IN [i \in 1..Len(cks) |-> <<pk, cks[i]>>] \o ScanKeys(table, Tail(order))

\* Table::select_if over one iteration order: the rows that evaluate to true,
\* or no rows at all as soon as one row fails to evaluate.
select_if(table, condition, order) ==
    LET keys == ScanKeys(table, order)
        rows == [i \in 1..Len(keys) |-> table.partitions[keys[i][1]][keys[i][2]]]
    IN IF \E i \in 1..Len(rows) : evaluate_expression(condition, rows[i]) = "err"
       THEN <<>>
       ELSE SelectSeq(rows, LAMBDA r : evaluate_expression(condition, r) = "true")

\* A faulty row of Table::update: the listed columns and nothing else.
UpdatedRowValuesOnly(row, values_to_update) == values_to_update

\* The row of Table::update: every listed column overwritten.
UpdatedRow(row, values_to_update) ==
    [c \in DOMAIN row \cup DOMAIN values_to_update |->
        IF c \in DOMAIN values_to_update THEN values_to_update[c] ELSE row[c]]

\* Table::update over one iteration order, for values that name only columns
\* of the table: the scan overwrites each matching row as it visits it and
\* stops with an error at the first row that fails to evaluate, keeping the
\* rows it has already overwritten.
RECURSIVE UpdateScan(_, _, _, _)
UpdateScan(table, keys, values_to_update, condition) ==
    IF keys = <<>> THEN [ok |-> TRUE, table |-> table]
    ELSE LET pk == Head(keys)[1]
             ck == Head(keys)[2]
             row == table.partitions[pk][ck]
             result == evaluate_expression(condition, row)
         IN IF result = "err" THEN [ok |-> FALSE, table |-> table]
            ELSE UpdateScan(
                    IF result = "true"
                    THEN [table EXCEPT !.partitions[pk][ck] =
                                           UpdatedRow(row, values_to_update)]
                    ELSE table,
                    Tail(keys), values_to_update, condition)

\* Table::update.  A value for a column the table does not declare is an error
\* at the first matching row; the model draws no such values.
TableUpdate(table, values_to_update, condition, order) ==
    UpdateScan(table, ScanKeys(table, order), values_to_update, condition)

\* Table::delete over one iteration order: per partition, the matching rows
\* are collected and then removed; a row that fails to evaluate ends the scan
\* with an error before its partition loses a row.
RECURSIVE TableDelete(_, _, _)
TableDelete(table, condition, order) ==
    IF order = <<>> THEN [ok |-> TRUE, table |-> table]
    ELSE LET pk == Head(order)
             partition == table.partitions[pk]
             results == [ck \in DOMAIN partition |->
                            evaluate_expression(condition, partition[ck])]
             keep == {ck \in DOMAIN partition : results[ck] # "true"}
         IN IF \E ck \in DOMAIN partition : results[ck] = "err"
            THEN [ok |-> FALSE, table |-> table]
            ELSE TableDelete(
                    [table EXCEPT !.partitions[pk] = [ck \in keep |-> partition[ck]]],
                    condition, Tail(order))

\* --------------------------------------------------------------- messages

\* InternalMessage::Query with the opcode of receive_internal_message; the
\* body is the parsed statement (generate_insert_cql and the query strings
\* quote every value, and parse_instruction reads the same values back).
InsertMessage(row) == [opcode |-> 2, row |-> row]
SelectMessage(condition) == [opcode |-> 3, condition |-> condition]
UpdateMessage(values_to_update, condition) ==
    [opcode |-> 4, values_to_update |-> values_to_update, condition |-> condition]
DeleteMessage(condition) == [opcode |-> 5, condition |-> condition]

\* Node::receive_internal_message, Query arm with opcodes 2..5, on the table
\* ks.t of a node: the result (Ok / Err), the rows of a SELECT's JSON body,
\* and the table afterwards.  insert_row, update_row and delete_row answer
\* Err("Table not found") when the node has no such table.
receive_internal_message(table, message, order) ==
    IF ~table.exists
    THEN [ok |-> FALSE, rows |-> <<>>, table |-> table]
    ELSE CASE message.opcode = 2 ->
                LET r == TableInsert(table, message.row)
                IN [ok |-> r.ok, rows |-> <<>>, table |-> r.table]
           [] message.opcode = 3 ->
                [ok |-> TRUE, rows |-> select_if(table, message.condition, order),
                 table |-> table]
           [] message.opcode = 4 ->
                LET r == TableUpdate(table, message.values_to_update,
                                     message.condition, order)
                IN [ok |-> r.ok, rows |-> <<>>, table |-> r.table]
           [] message.opcode = 5 ->
                LET r == TableDelete(table, message.condition, order)
                IN [ok |-> r.ok, rows |-> <<>>, table |-> r.table]

\* ----------------------------------------------------------------- routing

\* A faulty get_all_nodes: every node of the gossip table, Live or Dead.
get_all_nodes_with_dead(n) ==
    [i \in 1..Len(gossip_table[n]) |-> gossip_table[n][i].node_id]

\* get_live_nodes / Node::get_all_nodes
get_all_nodes(n) ==
    LET live == SelectSeq(gossip_table[n], LAMBDA g : g.status = "Live")
    IN [i \in 1..Len(live) |-> live[i].node_id]

\* Node::get_nodes_for_insert: no table at the coordinator, a row without a
\* partition-key column, or no keyspace give the empty list.
get_nodes_for_insert(n, row_values) ==
    IF ~data[n].exists THEN <<>>
    ELSE IF ~HasAll(data[n].partition_key_columns, row_values) THEN <<>>
    ELSE IF keyspaces[n] = 0 THEN <<>>
    ELSE get_replica_nodes(keyspaces[n],
                           KeyVector(data[n].partition_key_columns, row_values),
                           gossip_table[n])

\* Node::get_nodes_for_condition: the extracted literal alone is the
\* partition-key vector; no literal or no keyspace give the empty list.
get_nodes_for_condition(n, condition) ==
    LET partition_key == extract_value_supposing_column_equals_value(condition)
    IN IF ~partition_key.some THEN <<>>
       ELSE IF keyspaces[n] = 0 THEN <<>>
       ELSE get_replica_nodes(keyspaces[n], <<partition_key.value>>, gossip_table[n])

Range(seq) == {seq[i] : i \in 1..Len(seq)}

\* ------------------------------------------------------------ common state

\* GossipInformation: node_id, status, and last_heartbeat kept as its age in
\* seconds (now - last_heartbeat), so that a newer heartbeat is a smaller age.
GossipInformation(node_id, status, age) ==
    [node_id |-> node_id, status |-> status, age |-> age]

\* The gossip tables over a set of node ids: sorted by node_id as
\* update_gossip_table leaves them, node `self` Live, the others Live or Dead.
GossipTables(self, ids) ==
    LET order == Ascending({<<n>> : n \in ids})
    IN {[i \in 1..Len(order) |-> GossipInformation(order[i][1], status[order[i][1]], 0)] :
            status \in {f \in [ids -> {"Live", "Dead"}] : f[self] = "Live"}}

NoOp ==
    [phase |-> "idle", seq |-> 0, coord |-> NoNode, kind |-> "None",
     consistency |-> "One", to_send |-> [opcode |-> 0], nodes |-> <<>>,
     workers |-> {}, results |-> {}, chan |-> <<>>,
     ok_recibidas |-> 0, total_recibidas |-> 0, responses |-> <<>>,
     counted |-> <<>>, failed_sends |-> {}, reached |-> {},
     reply |-> "none", rows |-> <<>>,
     repair |-> {}, repair_message |-> [opcode |-> 0], repaired |-> {}]

NoHints == [n \in NodeIds |-> [p \in NodeIds |-> <<>>]]

\* The send_hints threads of a node: the peers of the threads that wait for
\* the hints lock, and the thread that holds it (its peer, the position of
\* the next hint in the queue, the positions it has delivered).
IdleDrain ==
    [spawned |-> <<>>, running |-> FALSE, peer |-> NoNode, next |-> 1, sent |-> {}]

NoDrain == [n \in NodeIds |-> IdleDrain]

\* No client is connected.
NoConnection == [open |-> FALSE]

\* ----------------------------------------------------- the routing functions

\* The tables a coordinator may hold: none, one with the partition key (id),
\* one with the composite partition key (id, id2).
RingSchemas ==
    {NoTable,
     NewTable(<<"id">>, <<"ck">>, {"id", "ck", "v"}),
     NewTable(<<"id", "id2">>, <<"ck">>, {"id", "id2", "ck", "v"})}

\* The partition-key vectors of the given length.
KeyVectors(len) == [1..len -> 0..MaxKey]

\* The predicate `c1 = P[1] AND c2 = P[2] ...` over the columns `cols`, as
\* parse_expression builds it (AND associates to the left).
RECURSIVE KeyCondition(_, _)
KeyCondition(cols, P) ==
    LET n == Len(cols)
        last == Comparison(Column(cols[n]), "=", Integer(P[n]))
    IN IF n = 1 THEN last
       ELSE And(KeyCondition(SubSeq(cols, 1, n - 1), SubSeq(P, 1, n - 1)), last)

InitRing ==
    /\ \E ids \in {S \in SUBSET NodeIds : 1 \in S} :
         \E t \in GossipTables(1, ids) : gossip_table = [n \in NodeIds |-> t]
    /\ up = [n \in NodeIds |-> TRUE]
    /\ \E rf \in 1..MaxRF : keyspaces = [n \in NodeIds |-> rf]
    /\ \E t \in RingSchemas : data = [n \in NodeIds |-> t]
    /\ hints = NoHints
    /\ op = NoOp
    /\ now = 1
    /\ drain = NoDrain
    /\ scn = [name |-> "ring"]
    /\ probe = [stage |-> "input"]
    /\ stops = 0
    /\ connection = NoConnection

\* Node 1 routes an INSERT of a row with partition-key vector P and a
\* statement whose predicate names P (alone, or followed by AND ck = 0).
Route ==
    /\ probe.stage = "input"
    /\ \E with_ck \in BOOLEAN :
       \E P \in KeyVectors(IF data[1].exists
                           THEN Len(data[1].partition_key_columns) ELSE 1) :
         LET cols == IF data[1].exists THEN data[1].partition_key_columns
                     ELSE <<"id">>
             row == [c \in Range(cols) \cup {"ck", "v"} |->
                        IF c \in Range(cols)
                        THEN P[CHOOSE i \in 1..Len(cols) : cols[i] = c]
                        ELSE 0]
             named == KeyCondition(cols, P)
             condition == IF with_ck
                          THEN And(named, Comparison(Column("ck"), "=", Integer(0)))
                          ELSE named
         IN probe' = [stage |-> "routed",
                      partition_keys |-> P,
                      row |-> row,
                      condition |-> condition,
                      replicas |-> get_replica_nodes(keyspaces[1], P, gossip_table[1]),
                      for_insert |-> get_nodes_for_insert(1, row),
                      for_condition |-> get_nodes_for_condition(1, condition)]
    /\ UNCHANGED <<gossip_table, up, keyspaces, data, hints, op, now, drain, scn, stops, connection>>

NextRing == Route

SpecRing == InitRing /\ [][NextRing]_vars

\* The node ids of the Live entries of a gossip table, in node_id order.
LiveIds(table) ==
    LET live == SelectSeq(table, LAMBDA g : g.status = "Live")
    IN [i \in 1..Len(live) |-> live[i].node_id]

\* The ring of the specification: of N nodes, the j-th (from 0) owns the
\* hashes of [j * R, (j + 1) * R) with R = 2^64 / N.
RingOwnerIndex(hashed, N) == (hashed * N) \div (U64_MAX + 1)

\* C3: while every one of the N nodes of the gossip table is Live, the replica
\* set the Simple strategy with RF = k returns for a partition key P has
\* min(k, N) members, all distinct; the first is the node whose ring range
\* contains hash(P) and the others are the next k - 1 nodes in node_id order,
\* wrapping around the end of the ring.
C3_SimpleReplicaSet ==
    (probe.stage = "routed" /\ Len(LiveIds(gossip_table[1])) = Len(gossip_table[1])) =>
        LET live == LiveIds(gossip_table[1])
            N == Len(live)
            R == probe.replicas
            j == RingOwnerIndex(hash_vector(probe.partition_keys), N)
        IN /\ Len(R) = Min(keyspaces[1], N)
           /\ \A a, b \in 1..Len(R) : a # b => R[a] # R[b]
           /\ \A i \in 1..Len(R) : R[i] = live[((j + i - 1) % N) + 1]

\* C5: a statement whose predicate has the shape `pk_column = literal
\* [AND ...]` is dispatched to exactly the replica set to which the same
\* coordinator with the same gossip table dispatches an INSERT of a row with
\* the partition-key vector the predicate names (the coordinator holds the
\* table, so that the INSERT is dispatched at all).
C5_ConditionRoutedAsInsert ==
    (probe.stage = "routed" /\ data[1].exists) =>
        probe.for_condition = probe.for_insert

\* ------------------------------------------------------------ coordinator

\* The capacity of the INSERT arm's response channel, mpsc::sync_channel(1).
InsertChannelCapacity == 1

\* The iteration orders of the partitions of a node's table.
PartitionOrders(table) ==
    IF table.exists THEN Orders(DOMAIN table.partitions) ELSE {<<>>}

\* The ways an exchange with a peer can go: the connect fails; the peer goes
\* away after the connect and the frame write fails; the peer executes the
\* message and answers; the peer goes away after the write and no response
\* can be read.
Outcomes(node_id) ==
    IF ~up[node_id] THEN {"connect_fail"}
    ELSE IF node_id \in scn.faulty /\ stops < MaxStops
    THEN {"write_fail", "executed", "lost"}
    ELSE {"executed"}

\* A faulty resend: the hint stored when the connect fails, but not when the
\* frame write fails.
resend_hint_on_connect_only(self, to_send, node_id, outcome, order) ==
    IF node_id = self \/ outcome = "executed"
    THEN LET r == receive_internal_message(data[node_id], to_send, order)
         IN [data |-> [data EXCEPT ![node_id] = r.table], hints |-> hints,
             ok |-> r.ok, rows |-> r.rows, failed_send |-> FALSE, down |-> FALSE]
    ELSE IF outcome = "connect_fail"
    THEN [data |-> data,
          hints |-> [hints EXCEPT ![self][node_id] = Append(@, to_send)],
          ok |-> FALSE, rows |-> <<>>, failed_send |-> TRUE, down |-> FALSE]
    ELSE [data |-> data, hints |-> hints,
          ok |-> FALSE, rows |-> <<>>, failed_send |-> outcome = "write_fail",
          down |-> TRUE]

\* A faulty resend: the worker is given up, nothing is sent and no hint is
\* stored.
resend_aborted(self, to_send, node_id, outcome, order) ==
    [data |-> data, hints |-> hints, ok |-> FALSE, rows |-> <<>>,
     failed_send |-> FALSE, down |-> FALSE]

\* Node::resend from node `self`: the data, hints and result after it.  A
\* failed connect or a failed frame write appends the message to the hint
\* queue of the peer; `down` tells whether the peer went away meanwhile.
resend(self, to_send, node_id, outcome, order) ==
    IF node_id = self \/ outcome = "executed"
    THEN LET r == receive_internal_message(data[node_id], to_send, order)
         IN [data |-> [data EXCEPT ![node_id] = r.table], hints |-> hints,
             ok |-> r.ok, rows |-> r.rows, failed_send |-> FALSE, down |-> FALSE]
    ELSE IF outcome \in {"connect_fail", "write_fail"}
    THEN [data |-> data,
          hints |-> [hints EXCEPT ![self][node_id] = Append(@, to_send)],
          ok |-> FALSE, rows |-> <<>>, failed_send |-> TRUE,
          down |-> outcome = "write_fail"]
    ELSE [data |-> data, hints |-> hints,
          ok |-> FALSE, rows |-> <<>>, failed_send |-> FALSE, down |-> TRUE]

\* A faulty resend_without_storing_hint: one that stores the hint as resend does.
resend_storing_hint(self, to_send, node_id, outcome, order) ==
    IF outcome = "executed"
    THEN LET r == receive_internal_message(data[node_id], to_send, order)
         IN [data |-> [data EXCEPT ![node_id] = r.table], hints |-> hints,
             ok |-> r.ok, rows |-> r.rows, failed_send |-> FALSE, down |-> FALSE]
    ELSE [data |-> data,
          hints |-> IF outcome \in {"connect_fail", "write_fail"}
                    THEN [hints EXCEPT ![self][node_id] = Append(@, to_send)]
                    ELSE hints,
          ok |-> FALSE, rows |-> <<>>,
          failed_send |-> outcome \in {"connect_fail", "write_fail"},
          down |-> outcome \in {"write_fail", "lost"}]

\* resend_without_storing_hint: as resend to a peer, the hints left alone.
resend_without_storing_hint(self, to_send, node_id, outcome, order) ==
    IF outcome = "executed"
    THEN LET r == receive_internal_message(data[node_id], to_send, order)
         IN [data |-> [data EXCEPT ![node_id] = r.table], hints |-> hints,
             ok |-> r.ok, rows |-> r.rows, failed_send |-> FALSE, down |-> FALSE]
    ELSE [data |-> data, hints |-> hints,
          ok |-> FALSE, rows |-> <<>>,
          failed_send |-> outcome \in {"connect_fail", "write_fail"},
          down |-> outcome \in {"write_fail", "lost"}]

\* What a node loses when its process ends: the hints buffer and the
\* send_hints threads live in memory only.  (Tables, keyspaces and the gossip
\* table come back from the files that flush writes; the model takes the
\* process to end after a flush.)
HintsWithout(h, n) == [h EXCEPT ![n] = [p \in NodeIds |-> <<>>]]

DrainWithout(d, n) == [d EXCEPT ![n] = IdleDrain]

\* The members of the cluster: the nodes of the gossip table of node 1.
Members == {gossip_table[1][i].node_id : i \in 1..Len(gossip_table[1])}

\* All threads of the statement in `op` have ended.
OpOver ==
    op.phase # "collect" /\ op.workers = {} /\ op.results = {} /\ op.repair = {}

\* The message the coordinator builds for a statement; add_timestamp_to_
\* insert_message and add_timestamp_to_update_message stamp the clock.
Message(kind, input, t) ==
    CASE kind = "Insert" ->
            InsertMessage([c \in DOMAIN input \cup {"_timestamp"} |->
                              IF c = "_timestamp" THEN t ELSE input[c]])
      [] kind = "Select" -> SelectMessage(input)
      [] kind = "Update" -> UpdateMessage([_timestamp |-> t, v |-> 1], input)
      [] kind = "Delete" -> DeleteMessage(input)

\* The loop condition of Consistency::check_consistency_level.
Collecting(o) ==
    /\ o.ok_recibidas < required_nodes(o.consistency, Len(o.nodes))
    /\ o.total_recibidas < Len(o.nodes)

\* A faulty read_repair: last_index is never moved, the first response is the
\* answer and the source of the repair.
read_repair_first(self, responses) ==
    LET found_mismatch == \E i \in 1..Len(responses) :
                              \E j \in 1..Len(responses[i]) :
                                  "_timestamp" \in DOMAIN responses[i][j]
    IN IF responses = <<>>
       THEN [panic |-> TRUE, final_response |-> <<>>, nodes |-> {},
             to_send |-> [opcode |-> 0]]
       ELSE IF found_mismatch /\ responses[1] # <<>>
       THEN [panic |-> FALSE, final_response |-> responses[1],
             nodes |-> Range(get_nodes_for_insert(self, responses[1][1])),
             to_send |-> InsertMessage(responses[1][1])]
       ELSE [panic |-> FALSE, final_response |-> responses[1],
             nodes |-> {}, to_send |-> [opcode |-> 0]]

\* Node::read_repair on the collected responses (each the rows of a SELECT
\* body): the scan keeps the first response that holds the greatest
\* _timestamp; when any row carries a _timestamp, the first row of that
\* response goes as an INSERT to the nodes of get_nodes_for_insert, one
\* thread per node; the response kept is the answer.  With no response at
\* all, responses[last_index] is out of bounds and the thread panics.
read_repair(self, responses) ==
    LET stamped == {ij \in UNION {{<<i, j>> : j \in 1..Len(responses[i])} :
                                      i \in 1..Len(responses)} :
                        "_timestamp" \in DOMAIN responses[ij[1]][ij[2]]}
        stamp(ij) == responses[ij[1]][ij[2]]._timestamp
        found_mismatch == stamped # {}
        newest == CHOOSE ij \in stamped :
                      /\ \A kl \in stamped : stamp(kl) <= stamp(ij)
                      /\ \A kl \in stamped : stamp(kl) = stamp(ij) => ij[1] <= kl[1]
        last_index == IF found_mismatch THEN newest[1] ELSE 1
    IN IF responses = <<>>
       THEN [panic |-> TRUE, final_response |-> <<>>, nodes |-> {},
             to_send |-> [opcode |-> 0]]
       ELSE IF found_mismatch
       THEN [panic |-> FALSE, final_response |-> responses[last_index],
             nodes |-> Range(get_nodes_for_insert(self, responses[last_index][1])),
             to_send |-> InsertMessage(responses[last_index][1])]
       ELSE [panic |-> FALSE, final_response |-> responses[last_index],
             nodes |-> {}, to_send |-> [opcode |-> 0]]

\* Node::resend_query_as_internal_message up to the call of
\* check_consistency_level: a client hands a statement to a running node; the
\* coordinator stamps it, computes the nodes, executes it locally when it is
\* one of them (the result goes into the channel first) and spawns one
\* worker per other node.  A SELECT of a table the coordinator does not hold
\* is answered UnavailableException at once.
Start ==
    /\ OpOver
    /\ op.seq < scn.max_ops
    /\ \E self \in scn.coords, kind \in scn.kinds, consistency \in scn.levels :
       \E input \in scn.inputs[kind], t \in now..scn.max_time,
          order \in PartitionOrders(data[self]) :
         /\ self \in Members
         /\ up[self]
         /\ now' = t
         /\ \E to_send \in {Message(kind, input, t)},
               nodes \in {IF kind = "Insert"
                          THEN get_nodes_for_insert(self, input)
                          ELSE get_nodes_for_condition(self, input)} :
            \E local \in {receive_internal_message(data[self], to_send, order)},
               started \in {[NoOp EXCEPT !.seq = op.seq + 1, !.coord = self,
                                         !.kind = kind, !.consistency = consistency,
                                         !.to_send = to_send]} :
               IF kind = "Select" /\ ~data[self].exists
               THEN /\ op' = [started EXCEPT !.phase = "done",
                                             !.reply = "UnavailableException"]
                    /\ data' = data
               ELSE IF self \in Range(nodes)
               THEN /\ op' = [started EXCEPT
                                !.phase = "collect", !.nodes = nodes,
                                !.workers = Range(nodes) \ {self},
                                !.reached = {self},
                                !.chan = <<[from |-> self, ok |-> local.ok,
                                            rows |-> local.rows]>>]
                    /\ data' = [data EXCEPT ![self] = local.table]
               ELSE /\ op' = [started EXCEPT
                                !.phase = "collect", !.nodes = nodes,
                                !.workers = Range(nodes)]
                    /\ data' = data
    /\ UNCHANGED <<gossip_table, up, keyspaces, hints, drain, scn, probe, stops, connection>>

\* A worker thread of the statement: resend (resend_without_storing_hint for
\* a SELECT) to its node.  A hint is stored under the hints write lock, which
\* a running send_hints holds.
Worker ==
    /\ op.phase # "idle"
    /\ \E node_id \in op.workers :
       \E outcome \in Outcomes(node_id), order \in PartitionOrders(data[node_id]) :
         \E r \in {IF op.kind = "Select"
                   THEN resend_without_storing_hint(op.coord, op.to_send, node_id,
                                                    outcome, order)
                   ELSE resend(op.coord, op.to_send, node_id, outcome, order)} :
            /\ r.hints # hints => ~drain[op.coord].running
            /\ data' = r.data
            /\ hints' = IF r.down THEN HintsWithout(r.hints, node_id) ELSE r.hints
            /\ drain' = IF r.down THEN DrainWithout(drain, node_id) ELSE drain
            /\ up' = IF r.down THEN [up EXCEPT ![node_id] = FALSE] ELSE up
            /\ stops' = IF r.down THEN stops + 1 ELSE stops
            /\ op' = [op EXCEPT
                        !.workers = @ \ {node_id},
                        !.results = @ \cup {[from |-> node_id, ok |-> r.ok,
                                             rows |-> r.rows]},
                        !.failed_sends = IF r.failed_send THEN @ \cup {node_id} ELSE @,
                        !.reached = IF outcome = "executed" THEN @ \cup {node_id} ELSE @]
    /\ UNCHANGED <<gossip_table, keyspaces, now, scn, probe, connection>>

\* A worker hands its result to the channel: tx.send.  The send fails once
\* the coordinator has returned (the receiver is dropped); on the INSERT
\* arm's bounded channel it waits for room.
WorkerSend ==
    /\ \E x \in op.results :
         /\ (op.phase = "collect" /\ op.kind = "Insert") =>
                Len(op.chan) < InsertChannelCapacity
         /\ op' = [op EXCEPT !.results = @ \ {x},
                             !.chan = IF op.phase = "collect"
                                      THEN Append(@, x) ELSE @]
    /\ UNCHANGED <<gossip_table, up, keyspaces, data, hints, now, drain, scn, probe, stops, connection>>

\* One turn of the loop of check_consistency_level: rx.recv().
Recv ==
    /\ op.phase = "collect"
    /\ Collecting(op)
    /\ op.chan # <<>>
    /\ LET x == Head(op.chan)
       IN op' = [op EXCEPT
                   !.chan = Tail(@),
                   !.responses = IF x.ok THEN Append(@, x.rows) ELSE @,
                   !.ok_recibidas = IF x.ok THEN @ + 1 ELSE @,
                   !.total_recibidas = @ + 1,
                   !.counted = Append(@, [from |-> x.from, ok |-> x.ok])]
    /\ UNCHANGED <<gossip_table, up, keyspaces, data, hints, now, drain, scn, probe, stops, connection>>

\* The loop of check_consistency_level has ended: the statement is answered.
\* Ok exactly when responses.len() == required; a SELECT then runs
\* read_repair and answers its rows.
Decide ==
    /\ op.phase = "collect"
    /\ ~Collecting(op)
    /\ \E met \in {Len(op.responses) =
                         required_nodes(op.consistency, Len(op.nodes))},
          rr \in {read_repair(op.coord, op.responses)},
          answered \in {[op EXCEPT !.phase = "done", !.chan = <<>>]} :
         op' = IF ~met
                THEN [answered EXCEPT !.reply = "UnavailableException"]
                ELSE IF op.kind # "Select"
                THEN [answered EXCEPT !.reply = "Void"]
                ELSE IF rr.panic
                THEN [answered EXCEPT !.reply = "panic"]
                ELSE [answered EXCEPT !.reply = "Rows",
                                      !.rows = rr.final_response,
                                      !.repair = rr.nodes,
                                      !.repair_message = rr.to_send]
    /\ UNCHANGED <<gossip_table, up, keyspaces, data, hints, now, drain, scn, probe, stops, connection>>

\* A thread of read_repair: resend of the synthetic INSERT, result dropped.
Repair ==
    /\ \E node_id \in op.repair :
       \E outcome \in Outcomes(node_id), order \in PartitionOrders(data[node_id]) :
         \E r \in {resend(op.coord, op.repair_message, node_id, outcome, order)} :
            /\ r.hints # hints => ~drain[op.coord].running
            /\ data' = r.data
            /\ hints' = IF r.down THEN HintsWithout(r.hints, node_id) ELSE r.hints
            /\ drain' = IF r.down THEN DrainWithout(drain, node_id) ELSE drain
            /\ up' = IF r.down THEN [up EXCEPT ![node_id] = FALSE] ELSE up
            /\ stops' = IF r.down THEN stops + 1 ELSE stops
            /\ op' = [op EXCEPT
                        !.repair = @ \ {node_id},
                        !.repaired = IF r.ok THEN @ \cup {node_id} ELSE @]
    /\ UNCHANGED <<gossip_table, keyspaces, now, scn, probe, connection>>

\* The process of a node ends.  While a coordinator collects, every node is
\* contacted once, so that a node that goes away during the collection is one
\* that goes away before it or after it, or in the middle of its exchange.
Crash ==
    /\ op.phase # "collect"
    /\ \E n \in Members \cap scn.faulty :
         /\ up[n]
         /\ n = op.coord => OpOver
         /\ up' = [up EXCEPT ![n] = FALSE]
         /\ hints' = HintsWithout(hints, n)
         /\ drain' = DrainWithout(drain, n)
    /\ stops < MaxStops
    /\ stops' = stops + 1
    /\ UNCHANGED <<gossip_table, keyspaces, data, op, now, scn, probe, connection>>

\* ------------------------------------------------------------------ gossip

\* The index of the entry of node `id` in a gossip table, 0 if there is none.
IndexOf(table, id) ==
    IF \E i \in 1..Len(table) : table[i].node_id = id
    THEN CHOOSE i \in 1..Len(table) : table[i].node_id = id
    ELSE 0

\* A faulty sort: the table is left in the order of the pushes.
sort_by_node_id_unsorted(table) == table

\* local_gossip_table.sort_by(|a, b| a.node_id.cmp(&b.node_id)): a stable
\* sort by node_id.
RECURSIVE sort_by_node_id(_)
sort_by_node_id(table) ==
    IF table = <<>> THEN <<>>
    ELSE LET first == Head(table)
             rest == sort_by_node_id(Tail(table))
         IN SelectSeq(rest, LAMBDA g : g.node_id < first.node_id)
               \o <<first>>
               \o SelectSeq(rest, LAMBDA g : g.node_id >= first.node_id)

\* The position of the first entry of node `id` in a gossip table, as the
\* inner loop of update_gossip_table finds it; 0 if there is none.
FirstIndexOf(table, id) ==
    LET found == {i \in 1..Len(table) : table[i].node_id = id}
    IN IF found = {} THEN 0 ELSE CHOOSE i \in found : \A j \in found : i <= j

\* A faulty merge step: an entry with an equal heartbeat overwrites too.
overwrites_not_older(local_gossip_info, gossip_info) ==
    local_gossip_info.age >= gossip_info.age

\* local_gossip_info.last_heartbeat < gossip_info.last_heartbeat: the
\* received heartbeat is strictly greater, its age strictly smaller.
overwrites(local_gossip_info, gossip_info) ==
    local_gossip_info.age > gossip_info.age

\* The loop of update_gossip_table over the received entries: an entry of a
\* known node with a newer heartbeat overwrites heartbeat and status of the
\* local one, an entry of an unknown node is pushed to the table and to
\* new_nodes_info.
RECURSIVE update_entries(_, _, _)
update_entries(local, received, new_nodes_info) ==
    IF received = <<>>
    THEN [table |-> local, new_nodes_info |-> new_nodes_info]
    ELSE LET gossip_info == Head(received)
             i == FirstIndexOf(local, gossip_info.node_id)
         IN IF i = 0
            THEN update_entries(Append(local, gossip_info), Tail(received),
                                Append(new_nodes_info, gossip_info))
            ELSE IF overwrites(local[i], gossip_info)
            THEN update_entries([local EXCEPT ![i].age = gossip_info.age,
                                              ![i].status = gossip_info.status],
                                Tail(received), new_nodes_info)
            ELSE update_entries(local, Tail(received), new_nodes_info)

\* Node::update_gossip_table up to the flush: the sorted table that is
\* stored and flushed, and the entries of the newly detected nodes in the
\* order of their arrival (empty when new_node_detected is false).
update_gossip_table(local, received) ==
    CHOOSE r \in {[table |-> sort_by_node_id(merged.table),
                   new_nodes_info |-> merged.new_nodes_info] :
                      merged \in {update_entries(local, received, <<>>)}} : TRUE

\* Node::update_gossip_table, the table afterwards.
Merge(local, received) == update_gossip_table(local, received).table

\* Node::update_gossip_table, the send_hints threads it spawns: one per
\* received entry that is Live, newer than the local one, which is Dead.
Revived(local, received) ==
    LET live_again == SelectSeq(received, LAMBDA g :
                          LET k == IndexOf(local, g.node_id)
                          IN /\ k # 0
                             /\ local[k].age > g.age
                             /\ local[k].status = "Dead"
                             /\ g.status = "Live")
    IN [i \in 1..Len(live_again) |-> live_again[i].node_id]

\* Node::gossip, the failure detector: the own entry Live with the heartbeat
\* of now; a Live entry whose heartbeat is DeadAfter or older (phi below the
\* threshold) Dead.
Suspect(table, self) ==
    [i \in 1..Len(table) |->
        IF table[i].node_id = self
        THEN [table[i] EXCEPT !.status = "Live", !.age = 0]
        ELSE IF table[i].age >= DeadAfter /\ table[i].status = "Live"
        THEN [table[i] EXCEPT !.status = "Dead"]
        ELSE table[i]]

\* The rows of the partitions `pks` of a table, partition after partition.
RECURSIVE RowsOf(_, _)
RowsOf(table, pks) ==
    IF pks = <<>> THEN <<>>
    ELSE PartitionRows(table.partitions[Head(pks)]) \o RowsOf(table, Tail(pks))

\* The table ks.t of a node after it has received the INSERTs of `rows`.
RECURSIVE InsertRows(_, _)
InsertRows(table, rows) ==
    IF rows = <<>> THEN table
    ELSE InsertRows(receive_internal_message(table, InsertMessage(Head(rows)), <<>>).table,
                    Tail(rows))

\* Node::reassign_data of node `self` for the newly detected nodes
\* `new_nodes`, with the gossip table `table` it has stored, the keyspaces
\* `k` and tables `t` of the nodes, and the nodes that accept connections.
\*  - CREATE KEYSPACE goes to every new node.  The CREATE TABLE that follows
\*    carries the keyspace name "" and a key list `(pk), ck))` that
\*    parse_create_table_primary_key rejects: no table ks.t comes of it.
\*  - partitions_to_reassign: the partitions whose replica set is without
\*    self.
\*  - each of their rows goes, as an INSERT, to the first of new_nodes if it
\*    is in the replica set (the inner loop breaks after its first turn).
\*  - the partitions are deleted, whatever became of the INSERTs.
reassign_data(self, new_nodes, table, k, t, listening) ==
    IF new_nodes = <<>> \/ k[self] = 0
    THEN [keyspaces |-> k, data |-> t]
    ELSE LET reached == {new_nodes[i].node_id : i \in 1..Len(new_nodes)} \cap listening
             created == [m \in NodeIds |-> IF m \in reached THEN k[self] ELSE k[m]]
             replica_nodes(pk) == Range(get_replica_nodes(k[self], pk, table))
             partitions_to_reassign ==
                 IF t[self].exists
                 THEN {pk \in DOMAIN t[self].partitions : self \notin replica_nodes(pk)}
                 ELSE {}
             target == new_nodes[1].node_id
             rows_to_send ==
                 RowsOf(t[self], Ascending({pk \in partitions_to_reassign :
                                               target \in replica_nodes(pk)}))
             kept == DOMAIN t[self].partitions \ partitions_to_reassign
         IN IF partitions_to_reassign = {}
            THEN [keyspaces |-> created, data |-> t]
            ELSE [keyspaces |-> created,
                  data |-> [m \in NodeIds |->
                      IF m = self
                      THEN [t[self] EXCEPT !.partitions =
                               [pk \in kept |-> t[self].partitions[pk]]]
                      ELSE IF m = target /\ m \in listening
                      THEN InsertRows(t[m], rows_to_send)
                      ELSE t[m]]]

\* The nodes whose listeners run.
Listening == {m \in NodeIds : up[m]}

\* A turn of the gossip loop of node n (Node::gossip): the failure detector,
\* then the table goes to one Live peer, which merges it if it is running
\* (receive_internal_message, Gossip opcode 0).  A turn commutes with the
\* steps of a coordinator that collects, and is taken before or after them.
GossipOf(n) ==
    /\ op.phase # "collect"
    /\ up[n]
    /\ Len(gossip_table[n]) > 1
    /\ \E mine \in {Suspect(gossip_table[n], n)} :
       LET live == {i \in 1..Len(mine) :
                       mine[i].node_id # n /\ mine[i].status = "Live"}
       IN IF live = {}
          THEN /\ gossip_table' = [gossip_table EXCEPT ![n] = mine]
               /\ UNCHANGED <<drain, keyspaces, data>>
          ELSE \E i \in live :
                 LET peer == mine[i].node_id
                 IN IF up[peer]
                    THEN \E r \in {update_gossip_table(gossip_table[peer], mine)} :
                         \E moved \in {reassign_data(peer, r.new_nodes_info, r.table,
                                                     keyspaces, data, Listening)} :
                         /\ Len(drain[peer].spawned)
                                + Len(Revived(gossip_table[peer], mine)) <= MaxThreads
                         /\ gossip_table' =
                               [gossip_table EXCEPT ![n] = mine, ![peer] = r.table]
                         /\ drain' = [drain EXCEPT ![peer].spawned =
                                          @ \o Revived(gossip_table[peer], mine)]
                         /\ keyspaces' = moved.keyspaces
                         /\ data' = moved.data
                    ELSE /\ gossip_table' = [gossip_table EXCEPT ![n] = mine]
                         /\ UNCHANGED <<drain, keyspaces, data>>
    /\ UNCHANGED <<up, hints, op, now, scn, probe, stops, connection>>

Gossip == \E n \in Members : GossipOf(n)

\* Time passes: every heartbeat that a member of the cluster knows is one
\* unit older (ages stop at DeadAfter).
Tick ==
    /\ op.phase # "collect"
    /\ gossip_table' =
          [n \in NodeIds |->
              IF n \in Members
              THEN [i \in 1..Len(gossip_table[n]) |->
                       [gossip_table[n][i] EXCEPT !.age = Min(@ + 1, DeadAfter)]]
              ELSE gossip_table[n]]
    /\ UNCHANGED <<up, keyspaces, data, hints, op, now, drain, scn, probe, stops, connection>>

\* connect_to_first_node of main.rs, for the node `n` that starts and the
\* running node `first`: `first` merges the table of n (Gossip opcode 1) and
\* answers its own, which n merges; either merge reassigns data when it
\* finds new nodes, while n does not accept connections yet.  `c` holds the
\* gossip tables, send_hints threads, keyspaces and tables before, the
\* result those after.
connect_to_first_node(c, n, first) ==
    IF ~up[first] THEN c
    ELSE LET at(node, received, k, t) ==
                 {<<merged, reassign_data(node, merged.new_nodes_info, merged.table,
                                          k, t, Listening)>> :
                      merged \in {update_gossip_table(c.gossip_table[node], received)}}
             exchange(a, b) ==
                 [gossip_table |-> [c.gossip_table EXCEPT ![first] = a[1].table,
                                                          ![n] = b[1].table],
                  drain |-> [c.drain EXCEPT ![first].spawned =
                                 @ \o Revived(c.gossip_table[first], c.gossip_table[n])],
                  keyspaces |-> b[2].keyspaces,
                  data |-> b[2].data]
         IN CHOOSE r \in UNION {{exchange(a, b) :
                                    b \in at(n, a[1].table, a[2].keyspaces, a[2].data)} :
                                a \in at(first, c.gossip_table[n], c.keyspaces, c.data)} :
                TRUE

\* get_node of main.rs: node 1 (the first of the configuration) connects to
\* every other node in turn, every other node connects to node 1.
RECURSIVE Join(_, _, _)
Join(c, n, firsts) ==
    IF firsts = <<>> THEN c
    ELSE CHOOSE r \in {Join(next, n, Tail(firsts)) :
                          next \in {connect_to_first_node(c, n, Head(firsts))}} : TRUE

\* The nodes that get_node of node n connects to, in order.
FirstNodes(n) ==
    IF n = 1
    THEN LET others == Ascending({<<m>> : m \in Members \ {n}})
         IN [i \in 1..Len(others) |-> others[i][1]]
    ELSE <<1>>

\* main of node n up to the start of its listeners and of its gossip loop.
Run(n) ==
    /\ ~up[n]
    /\ up' = [up EXCEPT ![n] = TRUE]
    /\ \E r \in {Join([gossip_table |-> gossip_table, drain |-> drain,
                        keyspaces |-> keyspaces, data |-> data],
                       n, FirstNodes(n))} :
         /\ gossip_table' = r.gossip_table
         /\ drain' = r.drain
         /\ keyspaces' = r.keyspaces
         /\ data' = r.data
    /\ UNCHANGED <<hints, op, now, scn, probe, stops, connection>>

\* A stopped node is started again: Node::new loads tables, keyspaces and
\* gossip table from its files, get_node announces it, and its listeners and
\* its gossip loop start.
Restart ==
    /\ op.phase # "collect"
    /\ \E n \in Members \cap scn.faulty : Run(n)

\* A node that has never run is started: Node::new finds no files, and
\* get_node announces the node to node 1.
Boot ==
    /\ op.phase # "collect"
    /\ \E n \in NodeIds \ Members : Run(n)

\* --------------------------------------------------------- hinted handoff

\* The queue without the first message equal to `hint`, as
\* hints_to_send.iter().position(|x| *x == hint) and remove(index) leave it.
RemoveFirst(queue, hint) ==
    IF \E i \in 1..Len(queue) : queue[i] = hint
    THEN LET index == CHOOSE i \in 1..Len(queue) :
                          queue[i] = hint /\ \A j \in 1..(i - 1) : queue[j] # hint
         IN SubSeq(queue, 1, index - 1) \o SubSeq(queue, index + 1, Len(queue))
    ELSE queue

\* The last loop of send_hints: each message of hints_successful removed.
RECURSIVE RemoveAll(_, _)
RemoveAll(queue, hints_successful) ==
    IF hints_successful = <<>> THEN queue
    ELSE RemoveAll(RemoveFirst(queue, Head(hints_successful)), Tail(hints_successful))

\* A send_hints thread of node n takes the hints write lock.
BeginHints ==
    /\ \E n \in Members :
       \E i \in 1..Len(drain[n].spawned) :
         /\ up[n]
         /\ ~drain[n].running
         /\ drain' = [drain EXCEPT
                         ![n] = [spawned |-> SubSeq(@.spawned, 1, i - 1)
                                             \o SubSeq(@.spawned, i + 1, Len(@.spawned)),
                                 running |-> TRUE, peer |-> drain[n].spawned[i],
                                 next |-> 1, sent |-> {}]]
    /\ UNCHANGED <<gossip_table, up, keyspaces, data, hints, op, now, scn, probe, stops, connection>>

\* send_hints, one turn of its first loop: the next hint of the queue goes to
\* the peer (connect and frame write, no response read); a running peer
\* executes it.
SendHint ==
    /\ \E n \in Members :
         LET d == drain[n]
             queue == hints[n][d.peer]
         IN /\ d.running
            /\ d.next <= Len(queue)
            /\ \E order \in PartitionOrders(data[d.peer]) :
                 IF up[d.peer]
                 THEN /\ data' = [data EXCEPT ![d.peer] =
                                     receive_internal_message(@, queue[d.next], order).table]
                      /\ drain' = [drain EXCEPT ![n].next = @ + 1,
                                                ![n].sent = @ \cup {d.next}]
                 ELSE /\ data' = data
                      /\ drain' = [drain EXCEPT ![n].next = @ + 1]
    /\ UNCHANGED <<gossip_table, up, keyspaces, hints, op, now, scn, probe, stops, connection>>

\* send_hints, its end: the messages that were sent are removed from the
\* queue and the lock is released.
EndHints ==
    /\ \E n \in Members :
         LET d == drain[n]
             queue == hints[n][d.peer]
             hints_successful == SelectSeq([i \in 1..Len(queue) |-> <<i, queue[i]>>],
                                           LAMBDA x : x[1] \in d.sent)
         IN /\ d.running
            /\ d.next > Len(queue)
            /\ hints' = [hints EXCEPT ![n][d.peer] =
                            RemoveAll(queue, [i \in 1..Len(hints_successful) |->
                                                 hints_successful[i][2]])]
            /\ drain' = [drain EXCEPT ![n] = [IdleDrain EXCEPT !.spawned = d.spawned]]
    /\ UNCHANGED <<gossip_table, up, keyspaces, data, op, now, scn, probe, stops, connection>>

\* ----------------------------------------------- the coordinator at work

\* The table ks.t of the runs: PRIMARY KEY ((id), ck), a value column v.
Schema == NewTable(<<"id">>, <<"ck">>, {"id", "ck", "v"})

\* The gossip table that lists the nodes `ids`, all Live.
LiveTable(ids) ==
    CHOOSE t \in GossipTables(CHOOSE n \in ids : TRUE, ids) :
        \A i \in 1..Len(t) : t[i].status = "Live"

\* The predicate `id = k`.
IdEquals(k) == Comparison(Column("id"), "=", Integer(k))

\* The statements of the clients: rows and predicates over the partition
\* keys 0 and 2 (the hashes 1 and 15 of the ring), at every consistency level.
CoordInputs ==
    LET keys == {0, 2}
        rows == {[id |-> k, ck |-> 0, v |-> 0] : k \in keys}
        conditions == {IdEquals(k) : k \in keys} \cup {True}
    IN [Insert |-> rows, Select |-> conditions,
        Update |-> conditions, Delete |-> conditions]

CoordScenario ==
    [name |-> "coord", coords |-> {1}, faulty |-> NodeIds,
     kinds |-> {"Insert", "Select", "Update", "Delete"},
     levels |-> {"One", "Quorum", "All"},
     inputs |-> CoordInputs, max_ops |-> MaxOps, max_time |-> CoordMaxTime]

\* A cluster of the nodes 1..N that has converged, every member holding
\* keyspace ks with replication factor rf and the empty table ks.t.
InitCluster(N, rf) ==
    /\ gossip_table = [n \in NodeIds |->
                          IF n <= N THEN LiveTable(1..N) ELSE LiveTable({n})]
    /\ up = [n \in NodeIds |-> n <= N]
    /\ keyspaces = [n \in NodeIds |-> IF n <= N THEN rf ELSE 0]
    /\ data = [n \in NodeIds |-> IF n <= N THEN Schema ELSE NoTable]
    /\ hints = NoHints
    /\ op = NoOp
    /\ now = 1
    /\ drain = NoDrain
    /\ probe = [stage |-> "input"]
    /\ stops = 0
    /\ connection = NoConnection

InitCoord ==
    /\ \E N \in 2..Cardinality(NodeIds), rf \in 1..MaxRF : InitCluster(N, rf)
    /\ scn = CoordScenario

NextCoord ==
    \/ Start
    \/ Worker
    \/ WorkerSend
    \/ Recv
    \/ Decide
    \/ Repair
    \/ Crash
    \/ Restart

SpecCoord == InitCoord /\ [][NextCoord]_vars

\* ------------------------------------------- properties of the coordinator

\* The `required` of the specification: 1 at ONE, floor(R / 2) + 1 at QUORUM,
\* R at ALL.
RequiredBySpec(consistency, R) ==
    CASE consistency = "One" -> 1
      [] consistency = "Quorum" -> (R \div 2) + 1
      [] consistency = "All" -> R

\* The results the coordinator has collected, and the successes among them.
Collected(o) == Len(o.counted)

Successes(o) == Cardinality({i \in DOMAIN o.counted : o.counted[i].ok})

\* How often the coordinator has counted node n, and as a failure.
EntriesCounted(o, n) == Cardinality({i \in DOMAIN o.counted : o.counted[i].from = n})

FailuresCounted(o, n) ==
    Cardinality({i \in DOMAIN o.counted : o.counted[i].from = n /\ ~o.counted[i].ok})

Succeeded(o) == o.reply \in {"Void", "Rows"}

Holds(n, row) ==
    /\ data[n].exists
    /\ HasAll(data[n].partition_key_columns, row)
    /\ HasAll(data[n].clustering_key_columns, row)
    /\ LET pk == KeyVector(data[n].partition_key_columns, row)
           ck == KeyVector(data[n].clustering_key_columns, row)
       IN /\ pk \in DOMAIN data[n].partitions
          /\ ck \in DOMAIN data[n].partitions[pk]
          /\ data[n].partitions[pk][ck] = row

\* C2: after an INSERT has succeeded and all its workers have finished, the
\* row is stored on every node of the replica set that was reached and on no
\* node outside the set; when every exchange went through, exactly one node
\* holds the row with two nodes and RF = 1, and exactly two with three nodes
\* and RF = 2.
C2_RowOnReplicasOnly ==
    (OpOver /\ op.kind = "Insert" /\ op.reply = "Void") =>
        LET row == op.to_send.row
            holders == {n \in Members : Holds(n, row)}
            all_reached == op.reached = Range(op.nodes)
            N == Cardinality(Members)
            rf == keyspaces[op.coord]
        IN /\ op.reached \subseteq holders
           /\ holders \subseteq Range(op.nodes)
           /\ (all_reached /\ N = 2 /\ rf = 1) => Cardinality(holders) = 1
           /\ (all_reached /\ N = 3 /\ rf = 2) => Cardinality(holders) = 2

\* C4: an UPDATE or DELETE whose predicate is not of the shape
\* `pk = v [AND ...]` is answered Invalid at every consistency level, and no
\* step of it mutates a row of any node.
C4_NonExtractableInvalid ==
    [][(/\ op'.kind \in {"Update", "Delete"}
        /\ ~extract_value_supposing_column_equals_value(op'.to_send.condition).some) =>
          /\ data' = data
          /\ op'.phase = "done" => op'.reply = "Invalid"]_vars

\* A worker of a write has just come back from a failed send to node n.
FailedSendStep(n) ==
    /\ op.kind \in {"Insert", "Update", "Delete"}
    /\ n \in op.workers
    /\ n \notin op'.workers
    /\ n \in op'.failed_sends

\* The threads of a write have just ended.
WriteEnds ==
    /\ op'.kind \in {"Insert", "Update", "Delete"}
    /\ ~OpOver
    /\ OpOver'

\* C6, as stated: a failed send of a write appends exactly one copy of the
\* message to the end of the peer's hint queue, and the coordinator counts
\* that replica as exactly one failed response.
C6_HintedAndCountedOnce ==
    [][/\ \A n \in NodeIds :
            FailedSendStep(n) =>
                hints'[op.coord][n] = Append(hints[op.coord][n], op.to_send)
       /\ WriteEnds =>
            \A n \in op'.failed_sends :
                EntriesCounted(op', n) = 1 /\ FailuresCounted(op', n) = 1]_vars

\* C6, amended: a failed send of a write appends exactly one copy of the
\* message to the end of the peer's hint queue; the coordinator counts that
\* replica at most once, as a failure and never as a success, and exactly
\* once whenever the statement is answered UnavailableException (a failure
\* that arrives after the level has been met is not counted).
C6_HintedOnceCountedAtMostOnce ==
    [][/\ \A n \in NodeIds :
            FailedSendStep(n) =>
                hints'[op.coord][n] = Append(hints[op.coord][n], op.to_send)
       /\ op'.kind \in {"Insert", "Update", "Delete"} =>
            \A n \in op'.failed_sends :
                /\ EntriesCounted(op', n) <= 1
                /\ EntriesCounted(op', n) = FailuresCounted(op', n)
                /\ (OpOver' /\ op'.reply = "UnavailableException") =>
                        FailuresCounted(op', n) = 1]_vars

\* A write whose send to a peer failed behind an older hint: the queue of the
\* peer holds two messages, the failure was counted, the answer is
\* UnavailableException.
C6_Witness ==
    /\ OpOver
    /\ op.kind \in {"Insert", "Update", "Delete"}
    /\ op.reply = "UnavailableException"
    /\ \E n \in op.failed_sends :
         /\ Len(hints[op.coord][n]) = 2
         /\ hints[op.coord][n][2] = op.to_send
         /\ FailuresCounted(op, n) = 1

\* No hint queue holds a SELECT.
NoSelectHinted ==
    \A n \in NodeIds, p \in NodeIds :
        \A i \in 1..Len(hints[n][p]) : hints[n][p][i].opcode # 3

\* C9, as stated: no hint queue contains a SELECT, and a SELECT whose replica
\* is unreachable is counted as one failed response.
C9_SelectNeverHintedCountedOnce ==
    /\ NoSelectHinted
    /\ (op.kind = "Select" /\ OpOver) =>
            \A n \in op.failed_sends : FailuresCounted(op, n) = 1

\* C9, amended: no hint queue contains a SELECT; a SELECT whose replica is
\* unreachable is never buffered as a hint, and its replica is counted at
\* most once, as a failure, and exactly once whenever the SELECT is answered
\* UnavailableException.
C9_SelectNeverHinted ==
    /\ NoSelectHinted
    /\ op.kind = "Select" =>
            \A n \in op.failed_sends :
                /\ EntriesCounted(op, n) <= 1
                /\ EntriesCounted(op, n) = FailuresCounted(op, n)
                /\ (OpOver /\ op.reply = "UnavailableException") =>
                        FailuresCounted(op, n) = 1

\* A SELECT that found a replica unreachable and was answered
\* UnavailableException, the failure counted.
C9_Witness ==
    /\ OpOver
    /\ op.kind = "Select"
    /\ op.reply = "UnavailableException"
    /\ \E n \in op.failed_sends : FailuresCounted(op, n) = 1

\* ------------------------------------------------------------ read repair

\* The statements of the runs that end in a read repair: INSERTs of the two
\* rows (ck = 0, ck = 1) of partition 0 and the SELECT of that partition.
RepairInputs ==
    [Insert |-> {[id |-> 0, ck |-> c, v |-> 0] : c \in {0, 1}},
     Select |-> {IdEquals(0)}]

RepairScenario ==
    [name |-> "repair", coords |-> {1}, faulty |-> NodeIds,
     kinds |-> {"Insert", "Select"},
     levels |-> {"One", "All"},
     inputs |-> RepairInputs, max_ops |-> MaxRepairOps, max_time |-> MaxTime]

\* Two nodes, RF = 2: both are replicas of every partition.
InitRepair ==
    /\ InitCluster(2, 2)
    /\ scn = RepairScenario

SpecRepair == InitRepair /\ [][NextCoord]_vars

\* The greatest _timestamp among the rows of the collected responses that
\* have the keys of `row`.
MaxObserved(row) ==
    LET stamps == {op.responses[i][j]._timestamp :
                      <<i, j>> \in {ij \in UNION {{<<i, j>> : j \in 1..Len(op.responses[i])} :
                                                   i \in 1..Len(op.responses)} :
                                       /\ op.responses[ij[1]][ij[2]].id = row.id
                                       /\ op.responses[ij[1]][ij[2]].ck = row.ck}}
    IN CHOOSE m \in stamps : \A x \in stamps : x <= m

\* C10: after a SELECT at ALL has succeeded and its read repair has completed
\* (every repair INSERT executed), every replica holds, for each row of the
\* newest response, the row of those keys with the greatest _timestamp that
\* was observed for it among the collected responses.
C10_ReadRepairConverges ==
    (/\ OpOver
     /\ op.kind = "Select"
     /\ op.consistency = "All"
     /\ op.reply = "Rows"
     /\ Range(op.nodes) \subseteq op.repaired) =>
        \A i \in 1..Len(op.rows) :
            \A n \in Range(op.nodes) :
                /\ <<op.rows[i].id>> \in DOMAIN data[n].partitions
                /\ <<op.rows[i].ck>> \in DOMAIN data[n].partitions[<<op.rows[i].id>>]
                /\ data[n].partitions[<<op.rows[i].id>>][<<op.rows[i].ck>>]._timestamp
                       = MaxObserved(op.rows[i])

\* ------------------------------------------------ the hinted handoff runs

\* The statements of the clients of the handoff runs: two rows of partition
\* 0, which go to node 1 as INSERTs at ONE.  The clock of the coordinator
\* counts seconds, so that a row written twice within a second gives two
\* equal messages.
HandoffInputs ==
    [Insert |-> {[id |-> 0, ck |-> c, v |-> 0] : c \in {0, 1}},
     Select |-> {}, Update |-> {}, Delete |-> {}]

HandoffScenario ==
    [name |-> "handoff", coords |-> {1}, faulty |-> {2},
     kinds |-> {"Insert"}, levels |-> {"One"},
     inputs |-> HandoffInputs, max_ops |-> MaxHandoffOps, max_time |-> CoordMaxTime]

\* Two nodes, RF = 2; node 1 coordinates, node 2 stops and starts.
InitHandoff ==
    /\ InitCluster(2, 2)
    /\ scn = HandoffScenario

NextHandoff ==
    \/ Start
    \/ Worker
    \/ WorkerSend
    \/ Recv
    \/ Decide
    \/ Crash
    \/ Restart
    \/ Gossip
    \/ Tick
    \/ BeginHints
    \/ SendHint
    \/ EndHints

SpecHandoff == InitHandoff /\ [][NextHandoff]_vars

\* The hints of `queue` at the positions that are not in `sent`, in order.
Undelivered(queue, sent) ==
    LET kept == SelectSeq([i \in 1..Len(queue) |-> <<i, queue[i]>>],
                          LAMBDA x : x[1] \notin sent)
    IN [i \in 1..Len(kept) |-> kept[i][2]]

\* C7: when the send_hints thread that a Dead -> Live merge has spawned ends,
\* every hint it has delivered is gone from the queue of the peer and the
\* hints it has not delivered are queued as before, in their original order.
C7_DrainRemovesDeliveredKeepsOrder ==
    [][\A n \in NodeIds :
          (drain[n].running /\ ~drain'[n].running /\ up'[n]) =>
              hints'[n][drain[n].peer] =
                  Undelivered(hints[n][drain[n].peer], drain[n].sent)]_vars

\* The runs of one statement, under the scheduling of the threads: the
\* gossip loop of a running node takes its turns, time passes, a thread that
\* can take its step takes it, and a stopped node is started again (these
\* are the runs in which the replica returns).  Clients and stops are free.
OneInsertScenario ==
    [HandoffScenario EXCEPT
        !.name = "one insert", !.max_ops = 1,
        !.inputs = [HandoffInputs EXCEPT !.Insert = {[id |-> 0, ck |-> 0, v |-> 0]}]]

InitOneInsert ==
    /\ InitCluster(2, 2)
    /\ scn = OneInsertScenario

FairSpecHandoff ==
    /\ InitOneInsert
    /\ [][NextHandoff]_vars
    /\ \A n \in {1, 2} : WF_vars(GossipOf(n))
    /\ WF_vars(Tick)
    /\ WF_vars(Worker)
    /\ WF_vars(WorkerSend)
    /\ WF_vars(Recv)
    /\ WF_vars(Decide)
    /\ WF_vars(Restart)
    /\ WF_vars(BeginHints)
    /\ WF_vars(SendHint)
    /\ WF_vars(EndHints)

\* The INSERT of the row of the one-insert runs, as node 1 stamps it.
HintedInsert == InsertMessage([id |-> 0, ck |-> 0, v |-> 0, _timestamp |-> 1])

\* C8: every write that node 1 has buffered as a hint for node 2 is
\* eventually stored by node 2, in the runs where node 2 returns.
C8_HintEventuallyApplied ==
    (HintedInsert \in Range(hints[1][2])) ~> Holds(2, HintedInsert.row)

\* ------------------------------------------------- the newest response

\* The runs of the read repair with either node as the coordinator, so that
\* the response of the coordinator itself, the first one collected, may be
\* the stale one.
NewestScenario == [RepairScenario EXCEPT !.name = "newest", !.coords = {1, 2}]

InitNewest ==
    /\ InitCluster(2, 2)
    /\ scn = NewestScenario

SpecNewest == InitNewest /\ [][NextCoord]_vars

\* The _timestamp values of the rows of the collected responses.
Stamps ==
    UNION {{op.responses[i][j]._timestamp : j \in 1..Len(op.responses[i])} :
              i \in 1..Len(op.responses)}

\* A SELECT has been answered with rows, from responses that carry
\* different _timestamp values.
AnsweredFromDifferentStamps ==
    /\ op.kind = "Select"
    /\ op.phase = "done"
    /\ op.reply = "Rows"
    /\ Cardinality(Stamps) > 1

\* C11: when the responses collected for a SELECT carry different _timestamp
\* values, the rows answered to the client are those of one collected
\* response, and that response holds the newest _timestamp of all.
C11_NewestResponseReturned ==
    AnsweredFromDifferentStamps =>
        /\ \E k \in 1..Len(op.responses) : op.rows = op.responses[k]
        /\ \E i \in 1..Len(op.rows) :
              \A x \in Stamps : x <= op.rows[i]._timestamp

\* A SELECT answered from different stamps whose first response (the
\* coordinator's own) does not hold the newest one.
C11_Witness ==
    /\ AnsweredFromDifferentStamps
    /\ \E x \in Stamps :
          \A j \in 1..Len(op.responses[1]) : op.responses[1][j]._timestamp < x

\* ------------------------------------------------------ nodes that join

\* The rows that the nodes hold when a node joins: the partition keys 3 and
\* 4 hash to 6 and 13, in the ranges of node 1 and node 2 of a ring of two
\* and of node 2 and node 3 of a ring of three.
JoinRows == {[id |-> k, ck |-> 0, v |-> 0, _timestamp |-> 1] : k \in {3, 4}}

\* The table ks.t of node n of a cluster with the gossip table `table` and
\* replication factor rf, after INSERTs of `rows` that reached every replica.
Placed(n, rows, rf, table) ==
    LET mine == {r \in rows : n \in Range(get_replica_nodes(rf, <<r.id>>, table))}
        order == Ascending({<<r.id>> : r \in mine})
    IN InsertRows(Schema, [i \in 1..Len(order) |->
                              CHOOSE r \in mine : r.id = order[i][1]])

JoinScenario ==
    [name |-> "join", coords |-> {}, faulty |-> NodeIds, kinds |-> {},
     levels |-> {}, inputs |-> <<>>, max_ops |-> 0, max_time |-> MaxTime]

\* Nodes 1 and 2 run, converged, with keyspace ks of replication factor rf
\* and some of JoinRows on their replicas; node 3 has never run.
InitJoin ==
    /\ \E rf \in 1..2, rows \in SUBSET JoinRows :
         /\ keyspaces = [n \in NodeIds |-> IF n <= 2 THEN rf ELSE 0]
         /\ data = [n \in NodeIds |->
                       IF n <= 2 THEN Placed(n, rows, rf, LiveTable({1, 2}))
                       ELSE NoTable]
    /\ gossip_table = [n \in NodeIds |->
                          IF n <= 2 THEN LiveTable({1, 2}) ELSE LiveTable({n})]
    /\ up = [n \in NodeIds |-> n <= 2]
    /\ hints = NoHints
    /\ op = NoOp
    /\ now = 1
    /\ drain = NoDrain
    /\ scn = JoinScenario
    /\ probe = [stage |-> "input"]
    /\ stops = 0
    /\ connection = NoConnection

NextJoin ==
    \/ Boot
    \/ Restart
    \/ Crash
    \/ Gossip
    \/ Tick

SpecJoin == InitJoin /\ [][NextJoin]_vars

\* C12: at every node, after any sequence of gossip ticks, gossip merges and
\* handshakes of new nodes, the gossip table holds at most one entry per
\* node_id and is sorted by node_id.
C12_TableSortedOneEntryPerNode ==
    \A n \in NodeIds :
        \A i, j \in 1..Len(gossip_table[n]) :
            i < j => gossip_table[n][i].node_id < gossip_table[n][j].node_id

\* Node 3 has joined and has merged the table of the cluster, whose entries
\* it pushed behind its own.
C12_Witness ==
    /\ up[3]
    /\ Len(gossip_table[3]) = 3
    /\ Len(gossip_table[2]) = 3

\* ------------------------------------------------- the merge of a table

\* The gossip tables that a node `self` may hold or send: one entry per
\* node of a set that includes self, sorted by node_id, each entry Live or
\* Dead with a heartbeat of any age.
TablesOf(self) ==
    UNION {{[i \in 1..Len(t) |-> [t[i] EXCEPT !.age = age[t[i].node_id]]] :
               t \in GossipTables(self, ids), age \in [ids -> 0..DeadAfter]} :
           ids \in {S \in SUBSET NodeIds : self \in S}}

\* Node 1 is about to merge a table that node 2 has sent.
InitMerge ==
    /\ \E local \in TablesOf(1), received \in TablesOf(2) :
         probe = [stage |-> "input", local |-> local, received |-> received]
    /\ gossip_table = [n \in NodeIds |-> LiveTable({n})]
    /\ up = [n \in NodeIds |-> n <= 2]
    /\ keyspaces = [n \in NodeIds |-> 0]
    /\ data = [n \in NodeIds |-> NoTable]
    /\ hints = NoHints
    /\ op = NoOp
    /\ now = 1
    /\ drain = NoDrain
    /\ scn = [name |-> "merge"]
    /\ stops = 0
    /\ connection = NoConnection

\* Node::update_gossip_table on the received table.
MergeReceived ==
    /\ probe.stage = "input"
    /\ \E r \in {update_gossip_table(probe.local, probe.received)} :
         probe' = [stage |-> "merged", local |-> probe.local,
                   received |-> probe.received,
                   table |-> r.table, new_nodes_info |-> r.new_nodes_info]
    /\ UNCHANGED <<gossip_table, up, keyspaces, data, hints, op, now, drain, scn, stops, connection>>

NextMerge == MergeReceived

SpecMerge == InitMerge /\ [][NextMerge]_vars

\* The node ids of the entries of a gossip table.
IdsOf(table) == {table[i].node_id : i \in 1..Len(table)}

\* The entry of node `id` in a table that holds one.
EntryOf(table, id) == table[CHOOSE i \in 1..Len(table) : table[i].node_id = id]

\* C13: a merge changes the local table entry by entry in exactly these
\* ways: a received entry of a node that is not known locally is added as it
\* is and is marked as newly detected; a received entry whose heartbeat is
\* strictly greater than the local one (its age strictly smaller) overwrites
\* the heartbeat and the status of the local entry; every other local entry
\* is what it was, and no other entry is marked or added.
C13_MergeEntryByEntry ==
    probe.stage = "merged" =>
        LET known == IdsOf(probe.local)
            came == IdsOf(probe.received)
        IN /\ Len(probe.table) = Cardinality(known \cup came)
           /\ IdsOf(probe.table) = known \cup came
           /\ Range(probe.new_nodes_info) =
                 {EntryOf(probe.received, id) : id \in came \ known}
           /\ Len(probe.new_nodes_info) = Cardinality(came \ known)
           /\ \A id \in came \ known :
                 EntryOf(probe.table, id) = EntryOf(probe.received, id)
           /\ \A id \in known \ came :
                 EntryOf(probe.table, id) = EntryOf(probe.local, id)
           /\ \A id \in known \cap came :
                 LET mine == EntryOf(probe.local, id)
                     theirs == EntryOf(probe.received, id)
                 IN EntryOf(probe.table, id) =
                       IF theirs.age < mine.age
                       THEN [mine EXCEPT !.age = theirs.age, !.status = theirs.status]
                       ELSE mine

\* A merge with an entry of each kind: node 3 was not known, the entry of
\* node 2 is newer and of another status, the entry of node 1 is as old as
\* the local one and of another status.
C13_Witness ==
    /\ probe.stage = "merged"
    /\ IdsOf(probe.local) = {1, 2}
    /\ IdsOf(probe.received) = {1, 2, 3}
    /\ EntryOf(probe.received, 2).age < EntryOf(probe.local, 2).age
    /\ EntryOf(probe.received, 2).status # EntryOf(probe.local, 2).status
    /\ EntryOf(probe.received, 1).age = EntryOf(probe.local, 1).age
    /\ EntryOf(probe.received, 1).status # EntryOf(probe.local, 1).status

\* ------------------------------------------------- gossip that converges

GossipScenario ==
    [name |-> "gossip", coords |-> {}, faulty |-> NodeIds, kinds |-> {},
     levels |-> {}, inputs |-> <<>>, max_ops |-> 0, max_time |-> MaxTime]

\* Three nodes run, converged.
InitGossip ==
    /\ InitCluster(3, 1)
    /\ scn = GossipScenario

\* A gossip table a unit of time later.
Aged(table) ==
    [i \in 1..Len(table) |-> [table[i] EXCEPT !.age = Min(@ + 1, DeadAfter)]]

\* Time passes while at most one node runs, and the gossip loop of that
\* node takes its turns, which reach no running peer.  (Two running nodes
\* that hold each other Live take twenty turns in the time that makes a
\* heartbeat old: between them no heartbeat grows old.)
TickWhileAlone ==
    /\ op.phase # "collect"
    /\ Cardinality(Listening) <= 1
    /\ gossip_table' =
          [n \in NodeIds |->
              IF n \notin Members THEN gossip_table[n]
              ELSE IF up[n] /\ Len(gossip_table[n]) > 1
              THEN Suspect(Aged(gossip_table[n]), n)
              ELSE Aged(gossip_table[n])]
    /\ UNCHANGED <<up, keyspaces, data, hints, op, now, drain, scn, probe, stops, connection>>

NextGossip ==
    \/ Crash
    \/ Restart
    \/ Gossip
    \/ TickWhileAlone
    \/ BeginHints
    \/ EndHints

\* The turn of the gossip loop of node n in which its table goes to node p.
GossipTo(n, p) ==
    /\ GossipOf(n)
    /\ gossip_table'[p] = Merge(gossip_table[p], Suspect(gossip_table[n], n))

\* The gossip loop of every running node takes its turns, the random choice
\* of the peer falls on every Live entry again and again, and the
\* send_hints threads run.
FairSpecGossip ==
    /\ InitGossip
    /\ [][NextGossip]_vars
    /\ \A n \in NodeIds : WF_vars(GossipOf(n))
    /\ \A n \in NodeIds : \A p \in NodeIds \ {n} : WF_vars(GossipTo(n, p))
    /\ WF_vars(BeginHints)
    /\ WF_vars(EndHints)

\* The table of node m holds the heartbeat that node n wrote last.
Heard(m, n) ==
    /\ n \in IdsOf(gossip_table[m])
    /\ EntryOf(gossip_table[m], n).age = EntryOf(gossip_table[n], n).age

\* C14: from every reachable state, under fair scheduling of the gossip
\* turns and of the delivery of their messages, the heartbeat that a running
\* node has written reaches the gossip table of every other running node.
C14_HeartbeatsReachLiveNodes ==
    \A n \in NodeIds : \A m \in NodeIds \ {n} :
        (up[n] /\ up[m]) ~> (~up[n] \/ ~up[m] \/ Heard(m, n))

\* ------------------------------------------------ data that is reassigned

\* The nodes that a merge of this step has added to the table of node n.
NewlyDetected(n) == IdsOf(gossip_table'[n]) \ IdsOf(gossip_table[n])

\* The replica set of the partition pk that node n computes from the table
\* it holds after this step.
RecomputedReplicas(n, pk) == Range(get_replica_nodes(keyspaces[n], pk, gossip_table'[n]))

\* C15: when a merge at node n detects new nodes, then for every partition
\* that n stores and whose recomputed replica set is without n, after the
\* step n holds the partition no more and every newly detected node of that
\* replica set holds every row of it.
C15_ReassignedRowsReachNewReplicas ==
    [][\A n \in NodeIds :
         (NewlyDetected(n) # {} /\ keyspaces[n] # 0 /\ data[n].exists) =>
             \A pk \in DOMAIN data[n].partitions :
                 n \notin RecomputedReplicas(n, pk) =>
                     /\ pk \notin DOMAIN data'[n].partitions
                     /\ \A m \in NewlyDetected(n) \cap RecomputedReplicas(n, pk) :
                           \A ck \in DOMAIN data[n].partitions[pk] :
                               Holds(m, data[n].partitions[pk][ck])']_vars

\* ------------------------------------------- the native protocol server

\* HEADER_SIZE and MAX_FRAME_SIZE of frame/mod.rs.
HEADER_SIZE == 9

MAX_FRAME_SIZE == 268435456

\* The Diffie-Hellman parameters of Connection::new: EncryptionHandler::new(23, 5).
EncryptionHandlerPrime == 23

EncryptionHandlerBase == 5

\* The largest private key that generate_private_key draws in the model (the
\* code draws from 1..100000).
MaxPrivateKey == 3

\* The number of frames the client of a run writes.
MaxFrames == 4

\* mod_exp of security/mod.rs: square and multiply.
RECURSIVE mod_exp_loop(_, _, _, _)
mod_exp_loop(result, b, exp, modulus) ==
    IF exp = 0 THEN result
    ELSE mod_exp_loop(IF exp % 2 = 1 THEN (result * b) % modulus ELSE result,
                      (b * b) % modulus, exp \div 2, modulus)

mod_exp(b, exp, modulus) == mod_exp_loop(1, b % modulus, exp, modulus)

generate_public_key(private_key, g, p) == mod_exp(g, private_key, p)

generate_shared_secret(public_key, private_key, p) == mod_exp(public_key, private_key, p)

\* EncryptionHandler::attempt_initialize, its result.
attempt_initialize(private_key, other_public_key, challenged_shared_secret) ==
    generate_shared_secret(other_public_key, private_key, EncryptionHandlerPrime)
        = challenged_shared_secret

\* n.to_be_bytes() of a 32-bit and of a 64-bit number below 2^31, and
\* from_be_bytes of the model's byte strings.
be32(n) == <<(n \div 16777216) % 256, (n \div 65536) % 256, (n \div 256) % 256, n % 256>>

be64(n) == <<0, 0, 0, 0>> \o be32(n)

from_be_bytes(bytes) ==
    LET RECURSIVE value(_)
        value(b) == IF b = <<>> THEN 0
                    ELSE 256 * value(SubSeq(b, 1, Len(b) - 1)) + b[Len(b)]
    IN value(bytes)

\* Frame::serialize of a frame the client writes: version, flags, stream id,
\* opcode, the length it claims, and the body.  A body stands for what its
\* deserializer makes of it: the body <<1>> of a STARTUP for the options
\* {CQL_VERSION: 3.0.0}, <<0>> for options that validate_options rejects,
\* the body <<1>> of a QUERY for a statement.
serialize(frame) ==
    <<frame.version, 0, 0, 0, frame.opcode>> \o be32(frame.length) \o frame.body

ClientFrame(version, opcode, body) ==
    [version |-> version, opcode |-> opcode, length |-> Len(body), body |-> body]

\* The public keys and the shared secrets that the AUTH_RESPONSEs of the
\* clients claim.
ClientKeys == {1, 2}

ClaimedSecrets == {1, 2, 4}

\* The frames of the clients: STARTUP with valid and with invalid options,
\* OPTIONS, AUTH_RESPONSE (with keys, and without a body), QUERY; a STARTUP
\* and an OPTIONS of protocol version 4; the opcode 0x04, which version 3
\* does not know, without and with a body; a header that announces a body of
\* MAX_FRAME_SIZE bytes.
WellFormedFrames ==
    {ClientFrame(3, 1, <<1>>), ClientFrame(3, 1, <<0>>), ClientFrame(3, 5, <<>>),
     ClientFrame(3, 15, <<>>), ClientFrame(3, 7, <<1>>)}
    \cup {ClientFrame(3, 15, be64(k) \o be64(x)) : k \in ClientKeys, x \in ClaimedSecrets}

MalformedFrames ==
    {ClientFrame(4, 1, <<1>>), ClientFrame(4, 5, <<>>),
     ClientFrame(3, 4, <<>>), ClientFrame(3, 4, <<1>>),
     [ClientFrame(3, 7, <<>>) EXCEPT !.length = MAX_FRAME_SIZE]}

ClientFrames == WellFormedFrames \cup MalformedFrames

\* Frame::new_protocol_error, its body.
ProtocolErrorMessage == [kind |-> "ERROR", code |-> "ProtocolError"]

\* Message::deserialize: the message of an opcode and a body, or an error.
MessageDeserialize(op_code, body) ==
    CASE op_code = 0 ->
             IF Len(body) >= 4 /\ from_be_bytes(SubSeq(body, 1, 4)) = 0
             THEN [ok |-> TRUE, message |-> [kind |-> "ERROR", code |-> "ServerError"]]
             ELSE IF Len(body) >= 4 /\ from_be_bytes(SubSeq(body, 1, 4)) = 10
             THEN [ok |-> TRUE, message |-> ProtocolErrorMessage]
             ELSE [ok |-> FALSE]
      [] op_code = 1 ->
             IF Len(body) = 1 /\ body[1] \in {0, 1}
             THEN [ok |-> TRUE, message |-> [kind |-> "STARTUP", valid |-> body[1] = 1]]
             ELSE [ok |-> FALSE]
      [] op_code = 5 -> [ok |-> TRUE, message |-> [kind |-> "OPTIONS"]]
      [] op_code = 7 ->
             IF Len(body) >= 1
             THEN [ok |-> TRUE, message |-> [kind |-> "QUERY"]]
             ELSE [ok |-> FALSE]
      [] op_code = 15 -> [ok |-> TRUE, message |-> [kind |-> "AUTH_RESPONSE", body |-> body]]
      [] op_code \in {2, 3, 6, 8, 9, 10, 11, 12, 13, 14, 16} ->
             [ok |-> TRUE, message |-> [kind |-> "OTHER"]]
      [] OTHER -> [ok |-> FALSE]

\* Frame::deserialize_from_stream on the bytes that wait in the stream (as
\* the decryptor of the connection returns them): read_exact blocks until
\* the header, and then the body, are there; an unsupported version and a
\* length above the maximum return the protocol error frame after the header
\* alone has been read, an unknown opcode and a body that does not
\* deserialize after header and body have been read.
deserialize_from_stream(wire) ==
    IF Len(wire) < HEADER_SIZE THEN [blocked |-> TRUE]
    ELSE LET header == SubSeq(wire, 1, HEADER_SIZE)
             length == from_be_bytes(SubSeq(header, 6, 9))
         IN IF header[1] \notin {3, 131}
            THEN [blocked |-> FALSE, message |-> ProtocolErrorMessage,
                  rest |-> SubSeq(wire, HEADER_SIZE + 1, Len(wire))]
            ELSE IF length > MAX_FRAME_SIZE - HEADER_SIZE
            THEN [blocked |-> FALSE, message |-> ProtocolErrorMessage,
                  rest |-> SubSeq(wire, HEADER_SIZE + 1, Len(wire))]
            ELSE IF Len(wire) < HEADER_SIZE + length THEN [blocked |-> TRUE]
            ELSE LET body == SubSeq(wire, HEADER_SIZE + 1, HEADER_SIZE + length)
                     parsed == MessageDeserialize(header[5], body)
                 IN [blocked |-> FALSE,
                     message |-> IF parsed.ok THEN parsed.message
                                 ELSE ProtocolErrorMessage,
                     rest |-> SubSeq(wire, HEADER_SIZE + length + 1, Len(wire))]

\* What a request does to a connection: the state afterwards, the body of
\* the response, whether the statement went to the node, the keys an
\* AUTH_RESPONSE claimed, and whether the thread of the connection panicked.
Outcome(connection_state, response) ==
    [connection_state |-> connection_state, response |-> response,
     passed |-> FALSE, claimed |-> None, panic |-> FALSE]

Error(code) == [kind |-> "ERROR", code |-> code]

\* Frame::handle_uninitialized
handle_uninitialized(message) ==
    IF message.kind = "STARTUP"
    THEN IF ~message.valid
         THEN Outcome("Uninitialized", Error("ProtocolError"))
         ELSE Outcome("UnAuthenticated", [kind |-> "AUTHENTICATE", value |-> "PLAIN"])
    ELSE IF message.kind = "OPTIONS"
    THEN Outcome("Uninitialized", [kind |-> "SUPPORTED"])
    ELSE Outcome("Uninitialized", Error("ProtocolError"))

\* A faulty authenticate_client: a wrong secret leaves the connection where
\* it is.
authenticate_client_no_reset(connection_state, auth_response, private_key) ==
    IF connection_state = "UnAuthenticated"
    THEN Outcome("Authenticating", [kind |-> "AUTH_CHALLENGE"])
    ELSE IF Len(auth_response) < 16
    THEN [Outcome(connection_state, [kind |-> "none"]) EXCEPT !.panic = TRUE]
    ELSE LET public_key == from_be_bytes(SubSeq(auth_response, 1, 8))
             shared_secret == from_be_bytes(SubSeq(auth_response, 9, 16))
             claimed == Some([public_key |-> public_key, shared_secret |-> shared_secret])
         IN IF attempt_initialize(private_key, public_key, shared_secret)
            THEN [Outcome("Ready", [kind |-> "AUTH_SUCCESS"]) EXCEPT !.claimed = claimed]
            ELSE [Outcome(connection_state, Error("BadCredentials"))
                     EXCEPT !.claimed = claimed]

\* authenticate_client of server_handle.rs, called in the states
\* UnAuthenticated and Authenticating; AuthResponse::deserialize indexes the
\* first sixteen bytes of the body and panics on a shorter one.
authenticate_client(connection_state, auth_response, private_key) ==
    IF connection_state = "UnAuthenticated"
    THEN Outcome("Authenticating", [kind |-> "AUTH_CHALLENGE"])
    ELSE IF Len(auth_response) < 16
    THEN [Outcome(connection_state, [kind |-> "none"]) EXCEPT !.panic = TRUE]
    ELSE LET public_key == from_be_bytes(SubSeq(auth_response, 1, 8))
             shared_secret == from_be_bytes(SubSeq(auth_response, 9, 16))
             claimed == Some([public_key |-> public_key, shared_secret |-> shared_secret])
         IN IF attempt_initialize(private_key, public_key, shared_secret)
            THEN [Outcome("Ready", [kind |-> "AUTH_SUCCESS"]) EXCEPT !.claimed = claimed]
            ELSE [Outcome("Uninitialized", Error("BadCredentials"))
                     EXCEPT !.claimed = claimed]

\* Frame::handle_authentication
handle_authentication(connection_state, message, private_key) ==
    IF message.kind = "AUTH_RESPONSE"
    THEN authenticate_client(connection_state, message.body, private_key)
    ELSE Outcome(connection_state, Error("ProtocolError"))

\* The answers of Node::resend_query_as_internal_message to a statement.
QueryAnswers ==
    {[kind |-> "RESULT", result |-> "Void"], [kind |-> "RESULT", result |-> "SetKeyspace"],
     Error("Invalid"), Error("UnavailableException")}

\* Frame::generate_response: a QUERY goes to the node, which answers
\* `answer`; an ERROR is echoed.
generate_response(message, answer) ==
    IF message.kind = "QUERY"
    THEN [Outcome("Ready", answer) EXCEPT !.passed = TRUE]
    ELSE IF message.kind = "ERROR"
    THEN Outcome("Ready", message)
    ELSE Outcome("Ready", Error("ProtocolError"))

\* A faulty handle_request: the statement of a QUERY goes to the node in
\* every state.
handle_request_unguarded(connection_state, message, private_key, answer) ==
    IF message.kind = "QUERY"
    THEN [Outcome(connection_state, answer) EXCEPT !.passed = TRUE]
    ELSE IF connection_state = "Uninitialized" THEN handle_uninitialized(message)
    ELSE IF connection_state = "Ready" THEN generate_response(message, answer)
    ELSE handle_authentication(connection_state, message, private_key)

\* Connection::handle_request
handle_request(connection_state, message, private_key, answer) ==
    IF connection_state = "Uninitialized" THEN handle_uninitialized(message)
    ELSE IF connection_state = "Ready" THEN generate_response(message, answer)
    ELSE handle_authentication(connection_state, message, private_key)

\* Connection::new for a client that has connected, with the private key
\* that generate_private_key drew.
NewConnection(private_key) ==
    [open |-> TRUE, connection_state |-> "Uninitialized", keyspace |-> None,
     private_key |-> private_key, shared_secret |-> None,
     wire |-> <<>>, sent |-> <<>>, served |-> <<>>]

InitConnection ==
    /\ gossip_table = [n \in NodeIds |-> IF n <= 2 THEN LiveTable(1..2) ELSE LiveTable({n})]
    /\ up = [n \in NodeIds |-> n <= 2]
    /\ keyspaces = [n \in NodeIds |-> IF n <= 2 THEN 2 ELSE 0]
    /\ data = [n \in NodeIds |-> IF n <= 2 THEN Schema ELSE NoTable]
    /\ hints = NoHints
    /\ op = NoOp
    /\ now = 1
    /\ drain = NoDrain
    /\ probe = [stage |-> "input"]
    /\ stops = 0
    /\ scn = [name |-> "connection"]
    /\ \E private_key \in 1..MaxPrivateKey :
         connection = NewConnection(private_key)

\* The client writes a frame to the stream.
ClientWrite ==
    /\ connection.open
    /\ Len(connection.sent) < MaxFrames
    /\ \E frame \in ClientFrames :
         connection' = [connection EXCEPT !.wire = @ \o serialize(frame),
                                          !.sent = Append(@, frame)]
    /\ UNCHANGED <<gossip_table, up, keyspaces, data, hints, op, now, drain, scn,
                   probe, stops>>

\* Connection::connection_loop, one turn: a frame is read, handled and
\* answered.  `served` keeps what was read, the state before and after, the
\* response, and whether the statement went to the node.
connection_loop ==
    /\ connection.open
    /\ \E read \in {deserialize_from_stream(connection.wire)} :
         /\ ~read.blocked
         /\ \E answer \in QueryAnswers :
            \E r \in {handle_request(connection.connection_state, read.message,
                                     connection.private_key, answer)} :
              connection' =
                 [connection EXCEPT
                    !.open = ~r.panic,
                    !.connection_state = r.connection_state,
                    !.shared_secret =
                        IF r.connection_state = "Ready" /\ r.claimed.some
                        THEN Some(r.claimed.value.shared_secret) ELSE @,
                    !.keyspace =
                        IF r.passed /\ r.response = [kind |-> "RESULT", result |-> "SetKeyspace"]
                        THEN Some("ks") ELSE @,
                    !.wire = read.rest,
                    !.served = Append(@, [request |-> read.message,
                                          before |-> connection.connection_state,
                                          after |-> r.connection_state,
                                          response |-> r.response,
                                          passed |-> r.passed,
                                          claimed |-> r.claimed])]
    /\ UNCHANGED <<gossip_table, up, keyspaces, data, hints, op, now, drain, scn,
                   probe, stops>>

NextConnection ==
    \/ ClientWrite
    \/ connection_loop

SpecConnection == InitConnection /\ [][NextConnection]_vars

\* The message that the server is to make of the i-th frame of the client.
MessageOf(frame) ==
    IF \/ frame.version \notin {3, 131}
       \/ frame.length > MAX_FRAME_SIZE - HEADER_SIZE
       \/ ~MessageDeserialize(frame.opcode, frame.body).ok
    THEN ProtocolErrorMessage
    ELSE MessageDeserialize(frame.opcode, frame.body).message

\* The shared secret of a public key, as Diffie-Hellman defines it.
SecretOf(public_key) ==
    (public_key ^ connection.private_key) % EncryptionHandlerPrime

Authenticated(s) ==
    /\ s.request.kind = "AUTH_RESPONSE"
    /\ s.claimed.some
    /\ s.claimed.value.shared_secret = SecretOf(s.claimed.value.public_key)

\* C16: a statement goes to the node only from a QUERY on a connection in
\* state Ready; Ready is entered only by an AUTH_RESPONSE whose claimed
\* shared secret is the one the server computes from the claimed public key;
\* a QUERY in any other state is answered with an ERROR and does not reach
\* the node.
C16_QueriesOnlyWhenReady ==
    /\ \A i \in 1..Len(connection.served) :
         LET s == connection.served[i]
         IN /\ s.passed => s.before = "Ready" /\ s.request.kind = "QUERY"
            /\ (s.after = "Ready" /\ s.before # "Ready") => Authenticated(s)
            /\ (s.request.kind = "QUERY" /\ s.before # "Ready")
                  => s.response.kind = "ERROR" /\ ~s.passed
    /\ connection.connection_state = "Ready" =>
         \E i \in 1..Len(connection.served) :
             connection.served[i].after = "Ready" /\ Authenticated(connection.served[i])

\* A statement went to the node on a connection that became Ready, with a
\* private key for which not every claimed secret is right.
C16_Witness ==
    /\ \E i \in 1..Len(connection.served) :
         connection.served[i].passed /\ connection.served[i].before = "Ready"
    /\ connection.private_key > 1

\* C17: every frame that is served changes the state by one of the four
\* transitions, with the reply of that transition, or leaves it unchanged.
C17_OnlyFourTransitions ==
    \A i \in 1..Len(connection.served) :
        LET s == connection.served[i]
        IN CASE s.before = "Uninitialized" /\ s.request.kind = "STARTUP" /\ s.request.valid ->
                    /\ s.after = "UnAuthenticated"
                    /\ s.response = [kind |-> "AUTHENTICATE", value |-> "PLAIN"]
             [] s.before = "UnAuthenticated" /\ s.request.kind = "AUTH_RESPONSE" ->
                    /\ s.after = "Authenticating"
                    /\ s.response.kind = "AUTH_CHALLENGE"
             [] s.before = "Authenticating" /\ Authenticated(s) ->
                    /\ s.after = "Ready"
                    /\ s.response.kind = "AUTH_SUCCESS"
             [] /\ s.before = "Authenticating" /\ s.request.kind = "AUTH_RESPONSE"
                /\ s.claimed.some /\ ~Authenticated(s) ->
                    /\ s.after = "Uninitialized"
                    /\ s.response = Error("BadCredentials")
             [] OTHER -> s.after = s.before

\* A wrong secret has reset the connection to Uninitialized, and a frame
\* that is no transition was served without a change of state.
C17_Witness ==
    /\ \E i \in 1..Len(connection.served) :
         /\ connection.served[i].before = "Authenticating"
         /\ connection.served[i].after = "Uninitialized"
    /\ \E i \in 1..Len(connection.served) :
         /\ connection.served[i].before = "UnAuthenticated"
         /\ connection.served[i].after = "UnAuthenticated"

Malformed(frame) ==
    \/ frame.version \notin {3, 131}
    \/ frame.opcode \notin {0, 1, 2, 3, 5, 6, 7, 8, 9, 10, 11, 12, 13, 14, 15, 16}
    \/ frame.length > MAX_FRAME_SIZE - HEADER_SIZE

\* C18: a frame with an unsupported version, an unknown opcode or a length
\* above the maximum is answered with ERROR ProtocolError and leaves the
\* state as it was, and the frames after it are served as the frames the
\* client wrote: the i-th response is a response to the i-th frame in the
\* state the connection was in, and the loop waits only when every frame
\* has been served.
C18_MalformedFrameAnsweredAndServingContinues ==
    /\ Len(connection.served) <= Len(connection.sent)
    /\ \A i \in 1..Len(connection.served) :
         LET s == connection.served[i]
         IN /\ \E answer \in QueryAnswers :
                  s.response = handle_request(s.before, MessageOf(connection.sent[i]),
                                              connection.private_key, answer).response
            /\ Malformed(connection.sent[i]) =>
                  s.response = Error("ProtocolError") /\ s.after = s.before
    /\ (connection.open /\ deserialize_from_stream(connection.wire).blocked)
          => Len(connection.served) = Len(connection.sent)

\* ------------------------------------------------- the inserts of a table

\* The rows that are inserted: any of the columns of ks.t and a column x
\* that ks.t does not have, with the values 0 and 1.
TableColumns == {"id", "ck", "v", "x"}

TableRows == UNION {[cols -> {0, 1}] : cols \in SUBSET TableColumns}

\* EncryptedTable::new of Schema: a table without partitions.  The table of
\* crud_operation is the one that decrypt_table returns and encrypt_table
\* stores; to_bytes and from_bytes write and read every field with its length.
InitTable ==
    /\ probe = [stage |-> "new", table |-> Schema]
    /\ gossip_table = [n \in NodeIds |-> LiveTable({n})]
    /\ up = [n \in NodeIds |-> n <= 2]
    /\ keyspaces = [n \in NodeIds |-> 0]
    /\ data = [n \in NodeIds |-> NoTable]
    /\ hints = NoHints
    /\ op = NoOp
    /\ now = 1
    /\ drain = NoDrain
    /\ scn = [name |-> "table"]
    /\ stops = 0
    /\ connection = NoConnection

\* EncryptedTable::insert: crud_operation with Table::insert; `before` and
\* `row` keep what the call was given.
EncryptedTableInsert ==
    /\ \E row \in TableRows :
       \E r \in {TableInsert(probe.table, row)} :
         probe' = [stage |-> "inserted", table |-> r.table, ok |-> r.ok,
                   before |-> probe.table, row |-> row]
    /\ UNCHANGED <<gossip_table, up, keyspaces, data, hints, op, now, drain, scn, stops, connection>>

NextTable == EncryptedTableInsert

SpecTable == InitTable /\ [][NextTable]_vars

Lacks(cols, row) == \E i \in 1..Len(cols) : cols[i] \notin DOMAIN row

\* C20: an insert of a row that lacks a partition-key column, lacks a
\* clustering-key column or has a column that the schema does not have
\* fails, and after a failed insert the table has the partitions and the
\* rows it had before.
C20_FailedInsertLeavesTable ==
    probe.stage = "inserted" =>
        /\ (\/ Lacks(probe.before.partition_key_columns, probe.row)
            \/ Lacks(probe.before.clustering_key_columns, probe.row)
            \/ \E c \in DOMAIN probe.row : c \notin probe.before.columns) => ~probe.ok
        /\ ~probe.ok => probe.table = probe.before

\* A row without its clustering key was turned down by a table that holds
\* rows, none of them of the partition of the row.
C20_Witness ==
    /\ probe.stage = "inserted"
    /\ ~probe.ok
    /\ DOMAIN probe.row = {"id", "v"}
    /\ probe.before.partitions # << >>
    /\ <<probe.row["id"]>> \notin DOMAIN probe.before.partitions

\* ------------------------------------------ statements a replica rejects

\* The INSERTs of the clients: a row of ks.t, a row without the partition
\* key, a row without the clustering key, and a row with a column x that
\* ks.t does not have.
InvalidInputs ==
    [Insert |-> {[id |-> 0, ck |-> 0, v |-> 0], [ck |-> 0, v |-> 0],
                 [id |-> 0, v |-> 0], [id |-> 0, ck |-> 0, x |-> 0]}]

InvalidScenario ==
    [name |-> "invalid", coords |-> {1, 2}, faulty |-> {},
     kinds |-> {"Insert"}, levels |-> {"One", "Quorum", "All"},
     inputs |-> InvalidInputs, max_ops |-> MaxOps, max_time |-> CoordMaxTime]

\* The nodes 1 and 2 with keyspace ks; the table ks.t is on both, or on
\* node 1 alone (a CREATE TABLE that node 2 did not receive).
InitInvalid ==
    /\ \E rf \in 1..2, holders \in {{1}, {1, 2}} :
         /\ keyspaces = [n \in NodeIds |-> IF n <= 2 THEN rf ELSE 0]
         /\ data = [n \in NodeIds |-> IF n \in holders THEN Schema ELSE NoTable]
    /\ gossip_table = [n \in NodeIds |-> IF n <= 2 THEN LiveTable(1..2) ELSE LiveTable({n})]
    /\ up = [n \in NodeIds |-> n <= 2]
    /\ hints = NoHints
    /\ op = NoOp
    /\ now = 1
    /\ drain = NoDrain
    /\ probe = [stage |-> "input"]
    /\ stops = 0
    /\ connection = NoConnection
    /\ scn = InvalidScenario

NextInvalid ==
    \/ Start
    \/ Worker
    \/ WorkerSend
    \/ Recv
    \/ Decide

SpecInvalid == InitInvalid /\ [][NextInvalid]_vars

\* The statement in `op` is one that a replica rejects: its row lacks a
\* partition-key or a clustering-key column of ks.t or has a column that
\* ks.t does not have, or a node that executed it has no table ks.t.
Rejected(o) ==
    \/ Lacks(Schema.partition_key_columns, o.to_send.row)
    \/ Lacks(Schema.clustering_key_columns, o.to_send.row)
    \/ \E c \in DOMAIN o.to_send.row : c \notin Schema.columns
    \/ \E n \in o.reached : ~data[n].exists

\* C19: the client of a statement that a replica rejects for a missing
\* partition-key column, a missing clustering-key column, an unknown column
\* or a missing table is answered ERROR Invalid.
C19_RejectedStatementInvalid ==
    (op.kind = "Insert" /\ op.phase = "done" /\ Rejected(op)) => op.reply = "Invalid"

\* ------------------------------------------ concurrent writes on a node

\* The number of threads of a node that insert at the same time (one thread
\* per connection of handler_nodes.rs).
MaxWriters == 3

\* The rows the threads insert into ks.t: the key (0, 0) with and without
\* the column v, at two timestamps, and a row of another clustering key.
WriterRows ==
    {[id |-> 0, ck |-> 0, v |-> 0, _timestamp |-> 1],
     [id |-> 0, ck |-> 0, v |-> 1, _timestamp |-> 2],
     [id |-> 0, ck |-> 0, _timestamp |-> 2],
     [id |-> 0, ck |-> 0, _timestamp |-> 1],
     [id |-> 0, ck |-> 1, v |-> 1, _timestamp |-> 1]}

\* self.data.write(): the write lock of `data` is free (0) or held by one
\* thread.
write(lock) == lock = 0

\* A node with the empty table ks.t whose threads are each about to call
\* insert_row with a row.
InitWriters ==
    /\ \E rows \in [1..MaxWriters -> WriterRows] :
         probe = [stage |-> "writers", table |-> Schema, lock |-> 0,
                  threads |-> [t \in 1..MaxWriters |-> [pc |-> "insert_row", row |-> rows[t]]],
                  applied |-> <<>>]
    /\ gossip_table = [n \in NodeIds |-> LiveTable({n})]
    /\ up = [n \in NodeIds |-> n <= 2]
    /\ keyspaces = [n \in NodeIds |-> 0]
    /\ data = [n \in NodeIds |-> NoTable]
    /\ hints = NoHints
    /\ op = NoOp
    /\ now = 1
    /\ drain = NoDrain
    /\ scn = [name |-> "writers"]
    /\ stops = 0
    /\ connection = NoConnection

\* insert_row, its first statement: the thread takes the write lock of data.
LockData ==
    /\ \E t \in 1..MaxWriters :
         /\ probe.threads[t].pc = "insert_row"
         /\ write(probe.lock)
         /\ probe' = [probe EXCEPT !.lock = t, !.threads[t].pc = "decrypt_table"]
    /\ UNCHANGED <<gossip_table, up, keyspaces, data, hints, op, now, drain, scn, stops, connection>>

\* crud_operation, its first statement: the thread reads the stored table.
DecryptTable ==
    /\ \E t \in 1..MaxWriters :
         /\ probe.threads[t].pc = "decrypt_table"
         /\ probe' = [probe EXCEPT !.threads[t] =
                         [pc |-> "insert", row |-> @.row, table |-> probe.table]]
    /\ UNCHANGED <<gossip_table, up, keyspaces, data, hints, op, now, drain, scn, stops, connection>>

\* crud_operation, the rest: Table::insert on the table that was read, and
\* the result stored; `applied` keeps the rows in the order of the stores.
StoreTable ==
    /\ \E t \in 1..MaxWriters :
         /\ probe.threads[t].pc = "insert"
         /\ \E r \in {TableInsert(probe.threads[t].table, probe.threads[t].row)} :
              probe' = [probe EXCEPT !.table = r.table,
                                     !.applied = Append(@, probe.threads[t].row),
                                     !.threads[t] = [pc |-> "return", row |-> @.row]]
    /\ UNCHANGED <<gossip_table, up, keyspaces, data, hints, op, now, drain, scn, stops, connection>>

\* insert_row returns: the guard of the lock is dropped.
UnlockData ==
    /\ \E t \in 1..MaxWriters :
         /\ probe.threads[t].pc = "return"
         /\ probe' = [probe EXCEPT !.lock = 0, !.threads[t].pc = "done"]
    /\ UNCHANGED <<gossip_table, up, keyspaces, data, hints, op, now, drain, scn, stops, connection>>

NextWriters ==
    \/ LockData
    \/ DecryptTable
    \/ StoreTable
    \/ UnlockData

SpecWriters == InitWriters /\ [][NextWriters]_vars

\* The threads that are between taking and dropping the lock.
Writing == {t \in 1..MaxWriters : probe.threads[t].pc \in {"decrypt_table", "insert", "return"}}

\* The INSERTs applied so far to the key of `row`, in the order applied.
AppliedTo(row) ==
    SelectSeq(probe.applied, LAMBDA r : r.id = row.id /\ r.ck = row.ck)

\* C21: the writes of a node are applied one at a time, and the row stored
\* under a key is the row of the last INSERT applied to that key, with the
\* columns of that INSERT and no other.
C21_LastInsertStoredInFull ==
    /\ Cardinality(Writing) <= 1
    /\ \A row \in WriterRows :
         AppliedTo(row) # <<>> =>
            /\ <<row.id>> \in DOMAIN probe.table.partitions
            /\ <<row.ck>> \in DOMAIN probe.table.partitions[<<row.id>>]
            /\ probe.table.partitions[<<row.id>>][<<row.ck>>]
                  = AppliedTo(row)[Len(AppliedTo(row))]
    /\ \A pk \in DOMAIN probe.table.partitions :
         \A ck \in DOMAIN probe.table.partitions[pk] :
            \E i \in 1..Len(probe.applied) :
                probe.applied[i].id = pk[1] /\ probe.applied[i].ck = ck[1]

\* Two INSERTs of the same key were applied while a third thread waits for
\* the lock, the first with the column v and the second without it.
C21_Witness ==
    /\ Len(AppliedTo([id |-> 0, ck |-> 0])) = 2
    /\ "v" \in DOMAIN AppliedTo([id |-> 0, ck |-> 0])[1]
    /\ "v" \notin DOMAIN AppliedTo([id |-> 0, ck |-> 0])[2]
    /\ \E t \in 1..MaxWriters : probe.threads[t].pc = "insert_row"

\* ------------------------------------------------ the rows of a table

\* The value '' that tokenize_string makes of two quotes: the empty string,
\* which the BTreeMap of a partition orders before every other value.
EmptyString == -1

\* The statements that reach a table: INSERTs of rows with the keys '' and
\* '0' (from clients, read repairs, hints and reassignments alike: each is a
\* Query of opcode 2), UPDATEs that set v or a key column, and the
\* predicates of UPDATE, DELETE and SELECT.
RowInputs ==
    [Insert |-> {[id |-> i, ck |-> c, _timestamp |-> 1] : i, c \in {EmptyString, 0}}
                \cup {[id |-> 0, ck |-> 0, v |-> 0, _timestamp |-> 1]},
     Update |-> {[v |-> 1, _timestamp |-> 1], [ck |-> EmptyString, _timestamp |-> 1]},
     Condition |-> {True, IdEquals(0), Comparison(Column("v"), "=", Integer(0))}]

InitRows ==
    /\ probe = [stage |-> "rows", table |-> Schema, ok |-> TRUE, rows |-> <<>>,
                before |-> Schema, message |-> [opcode |-> 0]]
    /\ gossip_table = [n \in NodeIds |-> LiveTable({n})]
    /\ up = [n \in NodeIds |-> n <= 2]
    /\ keyspaces = [n \in NodeIds |-> 0]
    /\ data = [n \in NodeIds |-> NoTable]
    /\ hints = NoHints
    /\ op = NoOp
    /\ now = 1
    /\ drain = NoDrain
    /\ scn = [name |-> "rows"]
    /\ stops = 0
    /\ connection = NoConnection

\* receive_internal_message with a Query of opcode 2..5 on the table;
\* `before` and `message` keep what the call was given.
Execute(message) ==
    /\ \E order \in PartitionOrders(probe.table) :
       \E r \in {receive_internal_message(probe.table, message, order)} :
         probe' = [stage |-> "rows", table |-> r.table, ok |-> r.ok, rows |-> r.rows,
                   before |-> probe.table, message |-> message]
    /\ UNCHANGED <<gossip_table, up, keyspaces, data, hints, op, now, drain, scn, stops, connection>>

InsertRow == \E row \in RowInputs.Insert : Execute(InsertMessage(row))

UpdateRows ==
    \E values_to_update \in RowInputs.Update, condition \in RowInputs.Condition :
        Execute(UpdateMessage(values_to_update, condition))

DeleteRows == \E condition \in RowInputs.Condition : Execute(DeleteMessage(condition))

SelectRows == \E condition \in RowInputs.Condition : Execute(SelectMessage(condition))

NextRows ==
    \/ InsertRow
    \/ UpdateRows
    \/ DeleteRows
    \/ SelectRows

SpecRows == InitRows /\ [][NextRows]_vars

\* C22: every row of the table has every partition-key and clustering-key
\* column of the schema, with a value that is not empty.
C22_KeyColumnsPresentNonEmpty ==
    \A pk \in DOMAIN probe.table.partitions :
        \A ck \in DOMAIN probe.table.partitions[pk] :
            LET row == probe.table.partitions[pk][ck]
            IN \A c \in Range(probe.table.partition_key_columns)
                        \cup Range(probe.table.clustering_key_columns) :
                   c \in DOMAIN row /\ row[c] # EmptyString

\* The (partition key, clustering key) pairs of the rows of a table.
KeysOf(table) ==
    UNION {{<<pk, ck>> : ck \in DOMAIN table.partitions[pk]} : pk \in DOMAIN table.partitions}

RowAt(table, key) == table.partitions[key[1]][key[2]]

\* What the predicate of the last statement makes of a row.
Evaluated(row) == evaluate_expression(probe.message.condition, row)

\* `after` is `before` with the columns of `values` overwritten.
Overwritten(before, after, values) ==
    /\ DOMAIN after = DOMAIN before \cup DOMAIN values
    /\ \A c \in DOMAIN values : after[c] = values[c]
    /\ \A c \in DOMAIN before \ DOMAIN values : after[c] = before[c]

C24_UnknownColumnFailsWhole ==
    (/\ probe.message.opcode \in {3, 4, 5}
     /\ \E key \in KeysOf(probe.before) : Evaluated(RowAt(probe.before, key)) = "err")
        => /\ ~probe.ok
           /\ probe.table = probe.before
           /\ probe.rows = <<>>

\* ------------------------------------------- USE and the CREATE statements

\* The number of statements the clients of a run of USE and CREATE send.
MaxStatements == 3

\* The client connections: 1 and 2 are connections to node 1, 3 is one to
\* node 2.
Conns == {1, 2, 3}

NodeOf(c) == IF c = 3 THEN 2 ELSE 1

\* The statements: USE of the keyspace ks and of a keyspace that nobody
\* creates, CREATE KEYSPACE ks with a strategy that create_keyspace knows
\* and with one that it does not, and CREATE TABLE t.
SchemaStatements ==
    {[kind |-> "UseKeyspace", keyspace_name |-> name] : name \in {"ks", "other"}}
    \cup {[kind |-> "CreateKeyspace", replication_strategy |-> strategy,
           replication_factor |-> rf] :
              strategy \in {"SimpleStrategy", "NetworkTopologyStrategy"}, rf \in 1..2}
    \cup {[kind |-> "CreateTable"]}

\* The InternalMessage::Query of opcode 0 or 1 that the coordinator builds.
SchemaMessage(statement) ==
    IF statement.kind = "CreateKeyspace"
    THEN [opcode |-> 0, replication_strategy |-> statement.replication_strategy,
          replication_factor |-> statement.replication_factor]
    ELSE [opcode |-> 1]

\* A faulty keyspace_exists: the keyspace is looked for on every node.
keyspace_exists_anywhere(k, self, keyspace_name) ==
    keyspace_name = "ks" /\ \E n \in NodeIds : k[n] # 0

\* Node::keyspace_exists on node `self`.
keyspace_exists(k, self, keyspace_name) ==
    keyspace_name = "ks" /\ k[self] # 0

\* Node::receive_internal_message, Query arm with the opcodes 0 and 1, on
\* node n: create_keyspace answers an error for a strategy other than
\* SimpleStrategy; create_encrypted_table puts a new table under the name,
\* whatever was there, and the answer is always Ok.
receive_schema_message(k, d, n, message) ==
    IF message.opcode = 0
    THEN IF message.replication_strategy = "SimpleStrategy"
         THEN [ok |-> TRUE, keyspaces |-> [k EXCEPT ![n] = message.replication_factor],
               data |-> d]
         ELSE [ok |-> FALSE, keyspaces |-> k, data |-> d]
    ELSE [ok |-> TRUE, keyspaces |-> k, data |-> [d EXCEPT ![n] = Schema]]

NoStatement ==
    [phase |-> "idle", seq |-> 0, conn |-> 0, statement |-> [kind |-> "None"],
     nodes |-> <<>>, remaining |-> <<>>, responses |-> <<>>, reply |-> "none"]

\* Three nodes that know each other, without keyspaces and tables; node 3
\* runs or not, and the gossip tables of the coordinators 1 and 2 hold the
\* other nodes as Live or Dead.  No connection has a keyspace.
InitSchema ==
    /\ \E t1 \in GossipTables(1, NodeIds), t2 \in GossipTables(2, NodeIds) :
         gossip_table = [n \in NodeIds |->
                            IF n = 1 THEN t1 ELSE IF n = 2 THEN t2 ELSE LiveTable(NodeIds)]
    /\ \E third \in BOOLEAN : up = [n \in NodeIds |-> n < 3 \/ third]
    /\ keyspaces = [n \in NodeIds |-> 0]
    /\ data = [n \in NodeIds |-> NoTable]
    /\ hints = NoHints
    /\ op = NoOp
    /\ now = 1
    /\ drain = NoDrain
    /\ probe = [stage |-> "schema", keyspace |-> [c \in Conns |-> None],
                before |-> [c \in Conns |-> None],
                cluster |-> <<[n \in NodeIds |-> 0], [n \in NodeIds |-> NoTable], NoHints>>,
                current |-> NoStatement]
    /\ scn = [name |-> "schema", faulty |-> {2, 3}]
    /\ stops = 0
    /\ connection = NoConnection

\* generate_response with resend_query_as_internal_message for a QUERY of
\* connection c: a statement other than CREATE KEYSPACE and USE on a
\* connection without a keyspace is answered Invalid; USE is answered from
\* keyspace_exists, and SetKeyspace sets the keyspace of the connection; the
\* CREATE statements take get_all_nodes and begin their loop of resends.
StartStatement ==
    /\ probe.current.phase \in {"idle", "done"}
    /\ probe.current.seq < MaxStatements
    /\ \E c \in Conns, statement \in SchemaStatements :
       \E started \in {[NoStatement EXCEPT !.seq = probe.current.seq + 1, !.conn = c,
                                           !.statement = statement]},
          noted \in {[probe EXCEPT !.before = probe.keyspace,
                                   !.cluster = <<keyspaces, data, hints>>]} :
         /\ up[NodeOf(c)]
         /\ probe' =
              IF ~probe.keyspace[c].some /\ statement.kind = "CreateTable"
              THEN [noted EXCEPT !.current = [started EXCEPT !.phase = "done",
                                                             !.reply = "Invalid"]]
              ELSE IF statement.kind = "UseKeyspace"
              THEN IF keyspace_exists(keyspaces, NodeOf(c), statement.keyspace_name)
                   THEN [noted EXCEPT
                           !.keyspace[c] = Some(statement.keyspace_name),
                           !.current = [started EXCEPT !.phase = "done",
                                                       !.reply = "SetKeyspace"]]
                   ELSE [noted EXCEPT !.current = [started EXCEPT !.phase = "done",
                                                                  !.reply = "Invalid"]]
              ELSE [noted EXCEPT !.current =
                       [started EXCEPT !.phase = "resend",
                                       !.nodes = get_all_nodes(NodeOf(c)),
                                       !.remaining = get_all_nodes(NodeOf(c))]]
    /\ UNCHANGED <<gossip_table, up, keyspaces, data, hints, op, now, drain, scn, stops, connection>>

\* One turn of the loop of the CREATE arms: resend to the next node.  The
\* node itself executes the message; a peer executes it, or the connect or
\* the write fails and the message is stored as a hint, or the peer goes
\* away before it answers.
ResendSchema ==
    /\ probe.current.phase = "resend"
    /\ probe.current.remaining # <<>>
    /\ \E self \in {NodeOf(probe.current.conn)}, node_id \in {Head(probe.current.remaining)},
          to_send \in {SchemaMessage(probe.current.statement)} :
       \E outcome \in IF node_id = self THEN {"executed"} ELSE Outcomes(node_id) :
       \E r \in {receive_schema_message(keyspaces, data, node_id, to_send)} :
         /\ keyspaces' = IF outcome = "executed" THEN r.keyspaces ELSE keyspaces
         /\ data' = IF outcome = "executed" THEN r.data ELSE data
         /\ hints' = IF outcome \in {"connect_fail", "write_fail"}
                     THEN [hints EXCEPT ![self][node_id] = Append(@, to_send)]
                     ELSE IF outcome = "lost" THEN HintsWithout(hints, node_id)
                     ELSE hints
         /\ up' = IF outcome \in {"write_fail", "lost"}
                  THEN [up EXCEPT ![node_id] = FALSE] ELSE up
         /\ stops' = IF outcome \in {"write_fail", "lost"} THEN stops + 1 ELSE stops
         /\ probe' = [probe EXCEPT
                        !.current.remaining = Tail(@),
                        !.current.responses =
                            Append(@, [from |-> node_id,
                                       ok |-> outcome = "executed" /\ r.ok])]
    /\ UNCHANGED <<gossip_table, op, now, drain, scn, connection>>

\* The end of the CREATE arms: the first Ok response is the answer, and
\* Invalid if there is none.
ReplySchema ==
    /\ probe.current.phase = "resend"
    /\ probe.current.remaining = <<>>
    /\ probe' = [probe EXCEPT
                   !.current.phase = "done",
                   !.current.reply =
                       IF \E i \in 1..Len(probe.current.responses) :
                              probe.current.responses[i].ok
                       THEN "SchemaChange" ELSE "Invalid"]
    /\ UNCHANGED <<gossip_table, up, keyspaces, data, hints, op, now, drain, scn, stops, connection>>

NextSchema ==
    \/ StartStatement
    \/ ResendSchema
    \/ ReplySchema

SpecSchema == InitSchema /\ [][NextSchema]_vars

\* C25: a USE is answered by the coordinator alone, no node is sent anything
\* and no keyspace, table or hint changes; if the keyspace exists on the
\* coordinator the connection has that keyspace afterwards and otherwise the
\* reply is Invalid and the connection has the keyspace it had; the other
\* connections, and every connection during another statement, keep theirs.
C25_UseSetsKeyspaceOfConnection ==
    LET c == probe.current.conn
        statement == probe.current.statement
    IN /\ statement.kind = "UseKeyspace" =>
            /\ probe.current.phase = "done"
            /\ probe.current.responses = <<>>
            /\ <<keyspaces, data, hints>> = probe.cluster
            /\ IF statement.keyspace_name = "ks" /\ keyspaces[NodeOf(c)] # 0
               THEN /\ probe.current.reply = "SetKeyspace"
                    /\ probe.keyspace[c] = Some(statement.keyspace_name)
               ELSE /\ probe.current.reply = "Invalid"
                    /\ probe.keyspace[c] = probe.before[c]
            /\ \A other \in Conns \ {c} : probe.keyspace[other] = probe.before[other]
       /\ statement.kind # "UseKeyspace" => probe.keyspace = probe.before

\* A connection that has the keyspace ks was answered Invalid to the USE of
\* another keyspace, while ks exists on node 2 and not on node 1.
C25_Witness ==
    /\ probe.current.statement = [kind |-> "UseKeyspace", keyspace_name |-> "other"]
    /\ probe.before[probe.current.conn] = Some("ks")
    /\ keyspaces[2] # 0
    /\ keyspaces[1] = 0

\* The nodes that are Live in the gossip table of node n.
LiveAt(n) == {gossip_table[n][i].node_id :
                 i \in {j \in 1..Len(gossip_table[n]) : gossip_table[n][j].status = "Live"}}

\* The nodes a CREATE was sent to, and those that answered Ok.
Asked == {probe.current.responses[i].from : i \in 1..Len(probe.current.responses)}

AnsweredOk == {probe.current.responses[i].from :
                 i \in {j \in 1..Len(probe.current.responses) : probe.current.responses[j].ok}}

Fanned ==
    /\ Asked = LiveAt(NodeOf(probe.current.conn))
    /\ probe.current.reply = IF AnsweredOk # {} THEN "SchemaChange" ELSE "Invalid"
    /\ \A n \in AnsweredOk :
         IF probe.current.statement.kind = "CreateKeyspace"
         THEN keyspaces[n] = probe.current.statement.replication_factor
         ELSE data[n].exists

\* C26 as stated: every CREATE KEYSPACE and CREATE TABLE that is answered
\* was sent to every node that is Live in the gossip table of the
\* coordinator, and is answered with success if one of them answered Ok and
\* with Invalid if none did.
C26_CreateSentToLiveNodes ==
    (/\ probe.current.phase = "done"
     /\ probe.current.statement.kind \in {"CreateKeyspace", "CreateTable"}) => Fanned

\* C26 amended: the same for CREATE KEYSPACE and for CREATE TABLE on a
\* connection that has a keyspace; a CREATE TABLE on a connection without a
\* keyspace is sent to no node and answered Invalid.
C26_CreateWithKeyspaceSentToLiveNodes ==
    (/\ probe.current.phase = "done"
     /\ probe.current.statement.kind \in {"CreateKeyspace", "CreateTable"}) =>
        IF \/ probe.current.statement.kind = "CreateKeyspace"
           \/ probe.before[probe.current.conn].some
        THEN Fanned
        ELSE Asked = {} /\ probe.current.reply = "Invalid"

\* A CREATE TABLE on a connection with a keyspace was answered with success
\* although a node that the coordinator holds Live did not answer Ok.
C26_Witness ==
    /\ probe.current.phase = "done"
    /\ probe.current.statement.kind = "CreateTable"
    /\ probe.current.reply = "SchemaChange"
    /\ Asked \ AnsweredOk # {}
    /\ Cardinality(AnsweredOk) > 1

\* ---------------------------------------------------- the client library

RETRIES == 3

\* The number of calls of use_keyspace and query the application makes.
MaxCalls == 2

\* The keyspace that no USE has selected: String::new().
NoKeyspace == "none"

\* The queries of the application.
ClientQueries == {"CreateKeyspace", "Select"}

\* Frame::new_query: the statement with the stream id the client has when
\* it builds the frame.
new_query(body, keyspace, stream_id) ==
    [body |-> body, keyspace |-> keyspace, stream |-> stream_id]

NoFrame == new_query("none", NoKeyspace, 0)

\* A connection to `address`; the server has no keyspace for it yet.
NewStream(address) ==
    [address |-> address, keyspace |-> None, inbox |-> <<>>, outbox |-> <<>>]

\* A response frame: the stream id is that of the request.
Response(request, ok, value) ==
    [request |-> request, stream |-> request.stream, ok |-> ok, value |-> value]

Unit == Response(NoFrame, TRUE, "unit")

\* Frame::handle_response of `response` for the frame `query`.
handle_response(response, query) ==
    IF response.stream # query.stream
    THEN [ok |-> FALSE, value |-> "Invalid stream id"]
    ELSE [ok |-> response.ok, value |-> response.value]

\* The frame of a call on the stack of the client.
Call(fn, stage, frame) == [fn |-> fn, stage |-> stage, frame |-> frame, attempts |-> 0]

Top(stack) == stack[Len(stack)]

Pop(stack) == SubSeq(stack, 1, Len(stack) - 1)

\* shuffle of the addresses: the orders it can give.
Shuffles == {shuffle \in [1..Cardinality(NodeIds) -> NodeIds] :
                \A i, j \in DOMAIN shuffle : i # j => shuffle[i] # shuffle[j]}

NoResult == [call |-> "none", done |-> FALSE, ok |-> FALSE, value |-> "none", source |-> "none"]

\* The client after ClientManager::new: connected to one of the addresses
\* and authenticated, without a keyspace and without unanswered queries.
\* The keyspace ks exists on some of the nodes.
InitClient ==
    /\ gossip_table = [n \in NodeIds |-> LiveTable(NodeIds)]
    /\ up = [n \in NodeIds |-> TRUE]
    /\ \E holders \in SUBSET NodeIds :
         keyspaces = [n \in NodeIds |-> IF n \in holders THEN 1 ELSE 0]
    /\ data = [n \in NodeIds |-> NoTable]
    /\ hints = NoHints
    /\ op = NoOp
    /\ now = 1
    /\ drain = NoDrain
    /\ \E address \in NodeIds :
         probe = [stage |-> "client", stream |-> NewStream(address), stream_id |-> 1,
                  mock_manager |-> NewStream(address),
                  current_keyspace |-> NoKeyspace, unanswered_queries |-> <<>>,
                  stack |-> <<>>, ret |-> None, calls |-> 0, reconnected |-> FALSE,
                  result |-> NoResult]
    /\ scn = [name |-> "client", faulty |-> NodeIds]
    /\ stops = 0
    /\ connection = NoConnection

\* The call of the application that is on the bottom of the stack.
CallOf(stack) == stack[1].frame.body

\* An Err that `?` carries up to the call of the application.
Fail(value, source) ==
    [probe EXCEPT !.stack = <<>>, !.ret = None,
                  !.result = [call |-> CallOf(probe.stack), done |-> TRUE, ok |-> FALSE,
                              value |-> value, source |-> source]]

\* The application calls use_keyspace("ks").
CallUseKeyspace ==
    /\ probe.stack = <<>>
    /\ probe.calls < MaxCalls
    /\ probe' = [probe EXCEPT
                   !.calls = @ + 1, !.result = NoResult, !.reconnected = FALSE,
                   !.stack = <<Call("use_keyspace", "new", new_query("Use", "ks", 0))>>]
    /\ UNCHANGED <<gossip_table, up, keyspaces, data, hints, op, now, drain, scn, stops, connection>>

\* The application calls query().
CallQuery ==
    /\ probe.stack = <<>>
    /\ probe.calls < MaxCalls
    /\ \E body \in ClientQueries :
         probe' = [probe EXCEPT
                     !.calls = @ + 1, !.result = NoResult, !.reconnected = FALSE,
                     !.stack = <<Call("query", "new", new_query(body, NoKeyspace, 0))>>]
    /\ UNCHANGED <<gossip_table, up, keyspaces, data, hints, op, now, drain, scn, stops, connection>>

\* ClientManager::query with execute_query, and use_keyspace around it: the
\* frame is built and written, the answer is read and handled; use_keyspace
\* takes the keyspace from an Ok.  An Err goes up to the application.
Query ==
    /\ probe.stack # <<>>
    /\ \E top \in {Top(probe.stack)} :
         /\ top.fn \in {"query", "use_keyspace"}
         /\ \/ /\ top.stage = "new"
               /\ \E frame \in {[top.frame EXCEPT !.stream = probe.stream_id]} :
                    probe' = [probe EXCEPT
                                !.stack = Append(Pop(@), [top EXCEPT !.stage = "write",
                                                                       !.frame = frame])
                                          \o <<Call("write", "retries", frame)>>]
            \/ /\ top.stage = "write"
               /\ probe.ret.some
               /\ probe' = [probe EXCEPT
                              !.ret = None,
                              !.stack = Append(Pop(@), [top EXCEPT !.stage = "read"])
                                        \o <<Call("read", "retries", NoFrame)>>]
            \/ /\ top.stage = "read"
               /\ probe.ret.some
               /\ \E r \in {handle_response(probe.ret.value, top.frame)},
                     source \in {probe.ret.value.request.body} :
                    probe' =
                      IF Len(probe.stack) = 1
                      THEN [probe EXCEPT
                              !.stack = <<>>, !.ret = None,
                              !.current_keyspace =
                                  IF top.fn = "use_keyspace" /\ r.ok THEN r.value ELSE @,
                              !.result = [call |-> CallOf(probe.stack), done |-> TRUE,
                                          ok |-> r.ok, value |-> r.value, source |-> source]]
                      ELSE IF r.ok
                      THEN [probe EXCEPT !.stack = Pop(@), !.ret = Some(Unit),
                                         !.current_keyspace = r.value]
                      ELSE Fail(r.value, source)
    /\ UNCHANGED <<gossip_table, up, keyspaces, data, hints, op, now, drain, scn, stops, connection>>

\* ClientManager::write: an attempt of retries on the stream, which fails
\* when the server is gone; an Ok notes the frame as unanswered; after
\* RETRIES failures reconnect, and again.
Write ==
    /\ probe.stack # <<>>
    /\ \E top \in {Top(probe.stack)} :
         /\ top.fn = "write"
         /\ \/ /\ ~probe.ret.some
               /\ top.attempts < RETRIES
               /\ probe' =
                    IF up[probe.stream.address]
                    THEN [probe EXCEPT
                            !.stream.inbox = Append(@, top.frame),
                            !.unanswered_queries = Append(@, top.frame),
                            !.stack = Pop(@),
                            !.ret = Some(Unit)]
                    ELSE [probe EXCEPT !.stack[Len(probe.stack)].attempts = @ + 1]
            \/ /\ ~probe.ret.some
               /\ top.attempts = RETRIES
               /\ probe' = [probe EXCEPT
                              !.reconnected = TRUE,
                              !.stack = Append(@, Call("reconnect", "connect", NoFrame))]
            \/ /\ probe.ret.some
               /\ probe' = [probe EXCEPT !.ret = None,
                                         !.stack[Len(probe.stack)].attempts = 0]
    /\ UNCHANGED <<gossip_table, up, keyspaces, data, hints, op, now, drain, scn, stops, connection>>

\* ClientManager::read: an attempt of retries takes the next frame of the
\* stream, fails when the server is gone and has left none, and waits
\* otherwise; an Ok pops an unanswered query; after RETRIES failures
\* reconnect, then retry_pending_query writes the last unanswered query,
\* and again.
Read ==
    /\ probe.stack # <<>>
    /\ \E top \in {Top(probe.stack)} :
         /\ top.fn = "read"
         /\ \/ /\ top.stage = "retries"
               /\ top.attempts < RETRIES
               /\ \/ /\ probe.stream.outbox # <<>>
                     /\ probe' = [probe EXCEPT
                                    !.stream.outbox = Tail(@),
                                    !.unanswered_queries =
                                        IF @ = <<>> THEN @ ELSE Pop(@),
                                    !.stack = Pop(@),
                                    !.ret = Some(Head(probe.stream.outbox))]
                  \/ /\ probe.stream.outbox = <<>>
                     /\ ~up[probe.stream.address]
                     /\ probe' = [probe EXCEPT !.stack[Len(probe.stack)].attempts = @ + 1]
            \/ /\ top.stage = "retries"
               /\ top.attempts = RETRIES
               /\ probe' = [probe EXCEPT
                              !.reconnected = TRUE,
                              !.stack = Append(Append(Pop(@), [top EXCEPT !.stage = "reconnect"]),
                                               Call("reconnect", "connect", NoFrame))]
            \/ /\ top.stage = "reconnect"
               /\ probe.ret.some
               /\ probe' =
                    IF probe.unanswered_queries = <<>>
                    THEN [probe EXCEPT
                            !.ret = None,
                            !.stack = Append(Pop(@), [top EXCEPT !.stage = "retries",
                                                                   !.attempts = 0])]
                    ELSE [probe EXCEPT
                            !.ret = None,
                            !.unanswered_queries = Pop(@),
                            !.stack = Append(Append(Pop(@), [top EXCEPT !.stage = "pending"]),
                                             Call("write", "retries",
                                                  Top(probe.unanswered_queries)))]
            \/ /\ top.stage = "pending"
               /\ probe.ret.some
               /\ probe' = [probe EXCEPT
                              !.ret = None,
                              !.stack = Append(Pop(@), [top EXCEPT !.stage = "retries",
                                                                     !.attempts = 0])]
    /\ UNCHANGED <<gossip_table, up, keyspaces, data, hints, op, now, drain, scn, stops, connection>>

\* ClientManager::reconnect: ClientManager::new connects to the first
\* address of a shuffle that accepts and authenticates there, which fails
\* when that server goes in between; the stream and the stream id are taken
\* from it, and use_keyspace is called with the current keyspace.
Reconnect ==
    /\ probe.stack # <<>>
    /\ \E top \in {Top(probe.stack)} :
         /\ top.fn = "reconnect"
         /\ \/ /\ top.stage = "connect"
               /\ \E shuffle \in Shuffles :
                  \E accepting \in {{i \in DOMAIN shuffle : up[shuffle[i]]}} :
                    probe' =
                      IF accepting = {}
                      THEN Fail("Could not connect to any of the specified addresses", "io")
                      ELSE [probe EXCEPT
                              !.mock_manager =
                                  NewStream(shuffle[CHOOSE i \in accepting :
                                                       \A j \in accepting : i <= j]),
                              !.stack = Append(Pop(@), [top EXCEPT !.stage = "authenticate"])]
            \/ /\ top.stage = "authenticate"
               /\ probe' =
                    IF up[probe.mock_manager.address]
                    THEN [probe EXCEPT
                            !.stream = probe.mock_manager,
                            !.stream_id = @ + 1,
                            !.stack = Append(Append(Pop(@), [top EXCEPT !.stage = "use"]),
                                             Call("use_keyspace", "new",
                                                  new_query("Use", probe.current_keyspace, 0)))]
                    ELSE Fail("authentication", "io")
            \/ /\ top.stage = "use"
               /\ probe.ret.some
               /\ probe' = [probe EXCEPT !.stack = Pop(@)]
    /\ UNCHANGED <<gossip_table, up, keyspaces, data, hints, op, now, drain, scn, stops, connection>>

\* The answer of the server to a QUERY on a connection whose keyspace is
\* `keyspace`: USE without a name does not parse; USE is answered from
\* keyspace_exists; CREATE KEYSPACE needs no keyspace, any other statement
\* is Invalid without one.
ServerResponse(request, keyspace, address) ==
    IF request.body = "Use"
    THEN IF request.keyspace = NoKeyspace THEN Response(request, FALSE, "SyntaxError")
         ELSE IF keyspace_exists(keyspaces, address, request.keyspace)
         THEN Response(request, TRUE, request.keyspace)
         ELSE Response(request, FALSE, "Invalid")
    ELSE IF request.body = "CreateKeyspace" THEN Response(request, TRUE, "CREATED")
    ELSE IF keyspace.some THEN Response(request, TRUE, "rows")
    ELSE Response(request, FALSE, "Invalid")

\* connection_loop of the server of the stream: the next request is read,
\* answered and the answer written; SetKeyspace sets the keyspace of the
\* connection, and CREATE KEYSPACE makes the keyspace on the running nodes.
ServerAnswer ==
    /\ probe.stream.inbox # <<>>
    /\ up[probe.stream.address]
    /\ \E request \in {Head(probe.stream.inbox)} :
       \E response \in {ServerResponse(request, probe.stream.keyspace, probe.stream.address)} :
         /\ probe' = [probe EXCEPT
                        !.stream.inbox = Tail(@),
                        !.stream.outbox = Append(@, response),
                        !.stream.keyspace =
                            IF request.body = "Use" /\ response.ok
                            THEN Some(response.value) ELSE @]
         /\ keyspaces' = IF request.body = "CreateKeyspace"
                         THEN [n \in NodeIds |-> IF up[n] THEN 1 ELSE keyspaces[n]]
                         ELSE keyspaces
    /\ UNCHANGED <<gossip_table, up, data, hints, op, now, drain, scn, stops, connection>>

\* A server stops.
ServerStop ==
    /\ stops < MaxStops
    /\ \E n \in NodeIds :
         /\ up[n]
         /\ up' = [up EXCEPT ![n] = FALSE]
    /\ stops' = stops + 1
    /\ UNCHANGED <<gossip_table, keyspaces, data, hints, op, now, drain, scn, probe, connection>>

NextClient ==
    \/ CallUseKeyspace
    \/ CallQuery
    \/ Query
    \/ Write
    \/ Read
    \/ Reconnect
    \/ ServerAnswer
    \/ ServerStop

SpecClient == InitClient /\ [][NextClient]_vars

\* C27: a reconnect begins only after RETRIES failed attempts of a write or
\* a read; and a call of query() during which the client reconnected, and
\* that has returned while the address it connected to last is reachable,
\* has returned the answer of a server to its query.
C27_QueryAnsweredAfterReconnect ==
    /\ \A i \in 1..Len(probe.stack) :
         probe.stack[i].fn = "reconnect" =>
            /\ i > 1
            /\ probe.stack[i - 1].fn \in {"write", "read"}
            /\ probe.stack[i - 1].attempts = RETRIES
    /\ (/\ probe.result.done
        /\ probe.result.call \in ClientQueries
        /\ probe.reconnected
        /\ up[probe.mock_manager.address]) =>
           probe.result.source = probe.result.call

\* --------------------------------------------- success and termination

\* C28: an INSERT, UPDATE or DELETE that was answered with success was
\* executed with success by a node whose result the coordinator counted, at
\* every consistency level and for every list of nodes, the empty one too.
C28_SuccessMeansExecuted ==
    (/\ op.phase = "done"
     /\ op.kind \in {"Insert", "Update", "Delete"}
     /\ Succeeded(op)) =>
        \E i \in DOMAIN op.counted : op.counted[i].ok /\ op.counted[i].from \in op.reached

\* The results of a statement that are still to come: in the channel, in
\* the hands of a worker that has its answer, or due from a worker.
Pending(o) == Len(o.chan) + Cardinality(o.results) + Cardinality(o.workers)

\* The coordinator reads at most one result of each node of the statement.
ReadsAtMostOneEach ==
    /\ op.total_recibidas <= Len(op.nodes)
    /\ Len(op.counted) = op.total_recibidas
    /\ \A i, j \in DOMAIN op.counted :
          i # j => op.counted[i].from # op.counted[j].from
    /\ \A i \in DOMAIN op.counted : op.counted[i].from \in Range(op.nodes)

\* While the coordinator waits for a result, one is still to come.
WaitEnds ==
    (op.phase = "collect" /\ Collecting(op)) =>
        Pending(op) >= Len(op.nodes) - op.total_recibidas /\ Pending(op) > 0

\* C29: the coordinator reads at most one result of each of the R nodes of
\* a statement, a result is still to come whenever it waits for one, and a
\* statement that has left check_consistency_level has its reply.
C29_WaitEndsAndReply ==
    /\ ReadsAtMostOneEach
    /\ WaitEnds
    /\ op.phase = "done" => op.reply \in {"Void", "Rows", "UnavailableException"}

\* ------------------------------------------------------- late workers

\* What check_consistency_level has read and what the client was answered.
ResultOf(o) ==
    <<o.phase, o.reply, o.rows, o.responses, o.counted, o.ok_recibidas,
      o.total_recibidas, o.chan>>

\* The step ends the resend of the worker of node n: the node has executed
\* the message, or the message is a new hint for it, or the node went away
\* in the exchange, or (a SELECT, which stores no hint) it was away already.
Completes(n) ==
    \/ /\ n \in op'.reached
       /\ \E order \in PartitionOrders(data[n]) :
            data'[n] = receive_internal_message(data[n], op.to_send, order).table
    \/ /\ op.kind # "Select"
       /\ hints'[op.coord][n] = Append(hints[op.coord][n], op.to_send)
    \/ up[n] /\ ~up'[n]
    \/ op.kind = "Select" /\ ~up[n]

\* The nodes whose result the coordinator has read.
CountedFrom(o) == {o.counted[i].from : i \in DOMAIN o.counted}

\* C30: after the statement is answered, a worker that is still at work
\* ends its resend as any worker does (the node executes the message, or
\* the hint is stored), and neither that nor the send of a result on the
\* channel changes what the coordinator has read and answered.
C30_LateWorkerCompletesSilently ==
    [][(op.phase = "done" /\ op'.seq = op.seq) =>
          /\ ResultOf(op') = ResultOf(op)
          /\ \A n \in op.workers \ op'.workers : Completes(n)]_vars

\* An INSERT was answered with success, all workers have ended, and two
\* nodes have executed it whose results the coordinator has not read: the
\* channel has room for one result, so one of the two was sent after the
\* coordinator had returned.
C30_Witness ==
    /\ op.phase = "done"
    /\ op.kind = "Insert"
    /\ op.reply = "Void"
    /\ op.workers = {}
    /\ op.results = {}
    /\ Cardinality(op.reached \ CountedFrom(op)) >= 2

\* ------------------------------------------------- the order of versions

\* The runs of the hinted handoff in which the clock of the coordinator
\* moves between two INSERTs of the same row, so that the two versions of
\* the row carry different _timestamp values.
StampsScenario ==
    [HandoffScenario EXCEPT
        !.name = "stamps", !.max_ops = 2, !.max_time = MaxTime,
        !.inputs = [HandoffInputs EXCEPT !.Insert = {[id |-> 0, ck |-> 0, v |-> 0]}]]

InitStamps ==
    /\ InitCluster(2, 2)
    /\ scn = StampsScenario

SpecStamps == InitStamps /\ [][NextHandoff]_vars

\* The keys of the rows that node n stores.
StoredKeys(d, n) == IF d[n].exists THEN KeysOf(d[n]) ELSE {}

\* C31: no step replaces the version of a row that a node stores with a
\* version of a smaller _timestamp, whether the step is the write of a
\* replica, the replay of a hint or an INSERT of read repair.
C31_OlderNeverReplacesNewer ==
    [][\A n \in NodeIds :
          \A key \in StoredKeys(data, n) \cap StoredKeys(data', n) :
              RowAt(data'[n], key)._timestamp >= RowAt(data[n], key)._timestamp]_vars

\* ------------------------------------- reassignment over several tables

\* The tables a node holds in the runs of the reassignment, by the name
\* `keyspace.table` under which Node::data keeps them, and the partition-key
\* values of their rows (the hashes 1, 8, 15 and 6 of the ring).
TableNames == {"ks1.t", "ks2.t"}

ReassignKeys == {0, 1, 2, 3}

\* EncryptedTable::get_keyspace_name: the part of the name before the dot.
get_keyspace_name(name) == IF name = "ks1.t" THEN "ks1" ELSE "ks2"

\* The first loop of the second half of Node::reassign_data: the partition
\* keys, of any table, whose replica set under the keyspace of that table is
\* without the node.  One list for all the tables.
partitions_to_reassign(self, k, tables, local_gossip_table) ==
    UNION {{pk \in DOMAIN tables[name].partitions :
                self \notin Range(get_replica_nodes(k[get_keyspace_name(name)], pk,
                                                    local_gossip_table))} :
           name \in DOMAIN tables}

\* Table::delete_partition: the partition leaves the table if it is there.
delete_partition(table, query_partition_keys) ==
    [table EXCEPT !.partitions =
        [pk \in DOMAIN table.partitions \ {query_partition_keys} |-> table.partitions[pk]]]

\* The last loop of Node::reassign_data: every listed partition is deleted
\* from every table of the node.
RECURSIVE delete_partitions(_, _)
delete_partitions(table, keys) ==
    IF keys = <<>> THEN table
    ELSE delete_partitions(delete_partition(table, Head(keys)), Tail(keys))

\* A node with the keyspaces ks1 and ks2 and an empty table in each, alone
\* in its gossip table.
InitReassign ==
    /\ gossip_table = [n \in NodeIds |-> LiveTable({n})]
    /\ up = [n \in NodeIds |-> n = 1]
    /\ keyspaces = [n \in NodeIds |-> 0]
    /\ data = [n \in NodeIds |-> NoTable]
    /\ hints = NoHints
    /\ op = NoOp
    /\ now = 1
    /\ drain = NoDrain
    /\ \E rf1 \in 1..MaxRF, rf2 \in 1..MaxRF :
         probe = [stage |-> "reassign", id |-> 1,
                  keyspaces |-> [ks1 |-> rf1, ks2 |-> rf2],
                  data |-> [name \in TableNames |-> Schema],
                  gossip_table |-> LiveTable({1}),
                  before |-> [name \in TableNames |-> Schema],
                  reassigned |-> FALSE]
    /\ scn = [name |-> "reassign", faulty |-> {}]
    /\ stops = 0
    /\ connection = NoConnection

\* The replica set of a partition of the table `name` under the strategy of
\* the keyspace of that table, over the gossip table `table`.
ReplicasUnderOwnKeyspace(name, pk, table) ==
    Range(get_replica_nodes(probe.keyspaces[get_keyspace_name(name)], pk, table))

\* The node executes the INSERT of a row of a partition that it is a
\* replica of (Query opcode 2 from a coordinator that holds the same table).
StoreRow ==
    /\ probe.stage = "reassign"
    /\ \E name \in TableNames, id \in ReassignKeys :
         /\ probe.id \in ReplicasUnderOwnKeyspace(name, <<id>>, probe.gossip_table)
         /\ \E r \in {TableInsert(probe.data[name],
                                  [id |-> id, ck |-> 0, v |-> 0, _timestamp |-> now])} :
              probe' = [probe EXCEPT !.data[name] = r.table, !.reassigned = FALSE]
    /\ UNCHANGED <<gossip_table, up, keyspaces, data, hints, op, now, drain, scn, stops,
                   connection>>

\* A merge of the node finds the new node m (update_gossip_table) and runs
\* reassign_data.  The statements that reassign_data sends change the tables
\* of other nodes; the tables of the node change in its last loop only.
Detect ==
    /\ probe.stage = "reassign"
    /\ \E m \in NodeIds \ IdsOf(probe.gossip_table) :
       \E merged \in {LiveTable(IdsOf(probe.gossip_table) \cup {m})} :
       \E keys \in {Ascending(partitions_to_reassign(probe.id, probe.keyspaces,
                                                     probe.data, merged))} :
         probe' = [probe EXCEPT
                      !.gossip_table = merged,
                      !.before = probe.data,
                      !.data = [name \in TableNames |->
                                   delete_partitions(probe.data[name], keys)],
                      !.reassigned = TRUE]
    /\ UNCHANGED <<gossip_table, up, keyspaces, data, hints, op, now, drain, scn, stops,
                   connection>>

NextReassign == StoreRow \/ Detect

SpecReassign == InitReassign /\ [][NextReassign]_vars

\* C32: a reassignment deletes a partition from a table of the node only if
\* the node is not in the replica set of that partition under the strategy
\* of the keyspace of that table.
C32_DeletesOnlyWhereNoLongerReplica ==
    (probe.stage = "reassign" /\ probe.reassigned) =>
        \A name \in TableNames :
            \A pk \in DOMAIN probe.before[name].partitions
                        \ DOMAIN probe.data[name].partitions :
                probe.id \notin ReplicasUnderOwnKeyspace(name, pk, probe.gossip_table)

\* --------------------------------------- the schema that precedes the rows

\* The rows that reassign_data of node n sends to the node m in this step:
\* m is the one node that the merge has detected, it accepts connections,
\* and the rows are those of the partitions that n stores, is no replica of
\* any more, and that m is a replica of.
RowsSentTo(n, m) ==
    IF /\ NewlyDetected(n) = {m}
       /\ up[n] /\ up[m]
       /\ keyspaces[n] # 0
       /\ data[n].exists
    THEN {data[n].partitions[pk][ck] :
              <<pk, ck>> \in {key \in KeysOf(data[n]) :
                                 /\ n \notin RecomputedReplicas(n, key[1])
                                 /\ m \in RecomputedReplicas(n, key[1])}}
    ELSE {}

\* C33: when reassign_data of a node sends row INSERTs to a newly detected
\* node, the CREATE KEYSPACE and CREATE TABLE sent before them have made the
\* keyspace and the table exist there, and the node stores the rows.
C33_SchemaBeforeRows ==
    [][\A n \in NodeIds : \A m \in NodeIds :
          RowsSentTo(n, m) # {} =>
              /\ keyspaces'[m] # 0
              /\ data'[m].exists
              /\ \A row \in RowsSentTo(n, m) : Holds(m, row)']_vars

\* ------------------------------------------ CREATE TABLE on a stored table

\* The tokens of a statement from `KEY` on; Token::Symbol is the symbol and
\* every other string an Identifier.  TokenAt is the token an iterator gives
\* at position i, "" when it has none.
IsSymbol(token) == token \in {"(", ")", ",", ";", ""}

TokenAt(tokens, i) == IF i \in 1..Len(tokens) THEN tokens[i] ELSE ""

\* The names of `columns` with a comma after every one but the last.
RECURSIVE Listed(_)
Listed(columns) ==
    IF Len(columns) <= 1 THEN columns
    ELSE <<Head(columns), ",">> \o Listed(Tail(columns))

\* query_builder::create_table_query from the key list on: `PRIMARY KEY (`,
\* the partition key columns, `), `, the clustering key columns, `)`, `);`.
create_table_query(table) ==
    <<"KEY", "(">> \o Listed(table.partition_key_columns) \o <<")", ",">>
        \o Listed(table.clustering_key_columns) \o <<")", ")", ";">>

\* The key list of the CREATE TABLE of a client for the table of the model:
\* PRIMARY KEY ((id), ck));
ClientKeyList == <<"KEY", "(", "(", "id", ")", ",", "ck", ")", ")", ";">>

\* The two loops of parse_create_table_primary_key from position i: a name
\* is kept if `)` or `,` follows it, a comma needs a name after it, `)` ends
\* the loop, another symbol is an error; so does the end of the tokens.
RECURSIVE key_columns(_, _, _)
key_columns(tokens, i, names) ==
    IF i > Len(tokens) THEN [ok |-> TRUE, names |-> names, next |-> i]
    ELSE IF tokens[i] = ")" THEN [ok |-> TRUE, names |-> names, next |-> i + 1]
    ELSE IF tokens[i] = ","
    THEN IF IsSymbol(TokenAt(tokens, i + 1))
         THEN [ok |-> FALSE, names |-> names, next |-> i]
         ELSE key_columns(tokens, i + 1, names)
    ELSE IF IsSymbol(tokens[i]) THEN [ok |-> FALSE, names |-> names, next |-> i]
    ELSE IF TokenAt(tokens, i + 1) \in {")", ","}
    THEN key_columns(tokens, i + 1, Append(names, tokens[i]))
    ELSE [ok |-> FALSE, names |-> names, next |-> i]

\* parse_create_table_primary_key: KEY, `(`, then the partition key columns
\* in parentheses; without the second `(` the token read in its place is
\* dropped and the one after it is the partition key if it is a name.  Then
\* the clustering key columns.  Either list empty is a syntax error.
parse_create_table_primary_key(tokens) ==
    LET failed == [ok |-> FALSE, partition_key_columns |-> <<>>,
                   clustering_key_columns |-> <<>>]
    IN IF TokenAt(tokens, 1) # "KEY" \/ TokenAt(tokens, 2) # "(" THEN failed
       ELSE LET partition ==
                    IF TokenAt(tokens, 3) = "(" THEN key_columns(tokens, 4, <<>>)
                    ELSE IF ~IsSymbol(TokenAt(tokens, 4))
                    THEN [ok |-> TRUE, names |-> <<tokens[4]>>, next |-> 5]
                    ELSE [ok |-> TRUE, names |-> <<>>, next |-> 5]
                clustering == key_columns(tokens, partition.next, <<>>)
            IN IF ~partition.ok \/ ~clustering.ok THEN failed
               ELSE IF partition.names = <<>> \/ clustering.names = <<>> THEN failed
               ELSE [ok |-> TRUE, partition_key_columns |-> partition.names,
                     clustering_key_columns |-> clustering.names]

\* CreateTableMessage: a Query of opcode 1 with the keyspace name it carries.
CreateTableMessage(keyspace_name, key_list) ==
    [opcode |-> 1, keyspace_name |-> keyspace_name, key_list |-> key_list]

\* Node::receive_internal_message, Query arm with opcode 1, seen from the
\* table ks.t of the node: a body that does not parse is answered Err;
\* otherwise create_encrypted_table puts a new, empty table under the name
\* `keyspace_name.t`, whatever was there, and the answer is Ok.
receive_create_table(table, message) ==
    LET parsed == parse_create_table_primary_key(message.key_list)
    IN IF ~parsed.ok THEN [ok |-> FALSE, rows |-> <<>>, table |-> table]
       ELSE IF message.keyspace_name # "ks" THEN [ok |-> TRUE, rows |-> <<>>, table |-> table]
       ELSE [ok |-> TRUE, rows |-> <<>>,
             table |-> NewTable(parsed.partition_key_columns,
                                parsed.clustering_key_columns,
                                table.columns \ {"_timestamp"})]

ExecuteCreateTable(message) ==
    /\ \E r \in {receive_create_table(probe.table, message)} :
         probe' = [stage |-> "rows", table |-> r.table, ok |-> r.ok, rows |-> r.rows,
                   before |-> probe.table, message |-> message]
    /\ UNCHANGED <<gossip_table, up, keyspaces, data, hints, op, now, drain, scn, stops, connection>>

\* The CREATE TABLE of a client for the table that the node holds, as the
\* coordinator resends it with the keyspace of the connection.
CreateTableAgain == ExecuteCreateTable(CreateTableMessage("ks", ClientKeyList))

\* The CREATE TABLE that reassign_data of another node makes of its table
\* ks.t (the same schema) and sends with the keyspace name "".
ForwardedCreateTable ==
    ExecuteCreateTable(CreateTableMessage("", create_table_query(probe.table)))

NextStored ==
    \/ InsertRow
    \/ UpdateRows
    \/ DeleteRows
    \/ SelectRows
    \/ CreateTableAgain
    \/ ForwardedCreateTable

SpecStored == InitRows /\ [][NextStored]_vars

\* The INSERT `row` addresses the stored row of the keys `key`.
Addresses(table, row, key) ==
    /\ HasAll(table.partition_key_columns, row)
    /\ HasAll(table.clustering_key_columns, row)
    /\ KeyVector(table.partition_key_columns, row) = key[1]
    /\ KeyVector(table.clustering_key_columns, row) = key[2]

\* C34: a stored row is removed or altered by a statement only if the
\* statement is a DELETE or an UPDATE whose predicate is true of the row or
\* an INSERT of the keys of the row; a CREATE TABLE, repeated by a client or
\* forwarded by another node, leaves every stored row as it was.
C34_StoredRowsStay ==
    \A key \in KeysOf(probe.before) :
        (key \notin KeysOf(probe.table)
            \/ RowAt(probe.table, key) # RowAt(probe.before, key)) =>
            \/ /\ probe.message.opcode = 2
               /\ Addresses(probe.before, probe.message.row, key)
            \/ /\ probe.message.opcode \in {4, 5}
               /\ Evaluated(RowAt(probe.before, key)) = "true"

\* ------------------------------------------------- the peer endpoints

\* The connections that wait in the accept queue of a peer endpoint.
MaxBacklog == 2

\* The gossip messages (opcode 0) that the gossip loops send in a run.
MaxGossips == 2

\* The threads of a node that call send_internal_message_and_return_response
\* or connect_to_first_node and wait for the Response: the main thread
\* (get_node) and the thread of start_node_gossip_query_protocol.
Callers == NodeIds \X {"main", "listener"}

NoCaller == <<0, "none">>

\* What a caller has left to send (the nodes that reassign_data sends its
\* statements to, in order) and the node whose Response it waits for.
IdleCall == [to_send |-> <<>>, waiting |-> 0]

\* The node ids of a set in the order of the gossip table.
InOrder(ids) ==
    LET order == Ascending({<<n>> : n \in ids})
    IN [i \in 1..Len(order) |-> order[i][1]]

\* get_node: node 1 connects to every other node in turn, the others to
\* node 1.
FirstsOf(n) == IF n = 1 THEN InOrder(NodeIds \ {1}) ELSE <<1>>

\* Every node is down; a node may find keyspaces on its disk
\* (load_keyspaces), and its gossip table holds the node alone.
InitPeers ==
    /\ gossip_table = [n \in NodeIds |-> LiveTable({n})]
    /\ up = [n \in NodeIds |-> FALSE]
    /\ keyspaces = [n \in NodeIds |-> 0]
    /\ data = [n \in NodeIds |-> NoTable]
    /\ hints = NoHints
    /\ op = NoOp
    /\ now = 1
    /\ drain = NoDrain
    /\ \E loaded \in SUBSET NodeIds :
         probe = [stage |-> "peers",
                  known |-> [n \in NodeIds |-> {n}],
                  has_keyspaces |-> [n \in NodeIds |-> n \in loaded],
                  main |-> [n \in NodeIds |-> [pc |-> "down", firsts |-> <<>>]],
                  listener |-> [n \in NodeIds |-> [pc |-> "accept", from |-> NoCaller,
                                                   opcode |-> 0]],
                  call |-> [c \in Callers |-> IdleCall],
                  backlog |-> [n \in NodeIds |-> <<>>],
                  gossips |-> 0]
    /\ scn = [name |-> "peers", faulty |-> {}]
    /\ stops = 0
    /\ connection = NoConnection

PeersUnchanged ==
    UNCHANGED <<gossip_table, up, keyspaces, data, hints, op, now, drain, scn, stops,
                connection>>

\* The endpoint of node n is bound and its thread runs.
Accepting(n) == probe.main[n].pc = "run"

\* Node::update_gossip_table at node n with the received entries: the new
\* entries join the table and, if there are any, reassign_data has its
\* statements to send to each of them (none without a keyspace).
Merged(p, n, received) ==
    LET new_nodes == received \ p.known[n]
    IN [known |-> [p.known EXCEPT ![n] = @ \cup received],
        to_send |-> IF p.has_keyspaces[n] THEN InOrder(new_nodes) ELSE <<>>]

\* main of node n begins: get_node makes the list of the nodes to connect to.
StartNode(n) ==
    /\ probe.stage = "peers"
    /\ probe.main[n].pc = "down"
    /\ probe' = [probe EXCEPT !.main[n] = [pc |-> "join", firsts |-> FirstsOf(n)]]
    /\ PeersUnchanged

\* connect_to_first_node: a refused connection is skipped; otherwise the
\* Gossip message of opcode 1 is queued at the peer and main waits for the
\* Response.
Handshake(n) ==
    /\ probe.stage = "peers"
    /\ probe.main[n].pc = "join"
    /\ probe.main[n].firsts # <<>>
    /\ probe.call[<<n, "main">>] = IdleCall
    /\ \E first \in {Head(probe.main[n].firsts)} :
         IF ~Accepting(first)
         THEN probe' = [probe EXCEPT !.main[n].firsts = Tail(@)]
         ELSE /\ Len(probe.backlog[first]) < MaxBacklog
              /\ probe' = [probe EXCEPT
                     !.backlog[first] = Append(@, [kind |-> "Gossip", opcode |-> 1,
                                                   from |-> <<n, "main">>,
                                                   table |-> probe.known[n]]),
                     !.call[<<n, "main">>].waiting = first]
    /\ PeersUnchanged

\* main has connected to its first nodes and reassigned: the listeners and
\* the gossip loop start.
RunNode(n) ==
    /\ probe.stage = "peers"
    /\ probe.main[n].pc = "join"
    /\ probe.main[n].firsts = <<>>
    /\ probe.call[<<n, "main">>] = IdleCall
    /\ probe' = [probe EXCEPT !.main[n].pc = "run"]
    /\ PeersUnchanged

\* send_internal_message_and_return_response of reassign_data in the thread
\* c: a refused connection is an error that is ignored; otherwise the Query
\* is queued at the peer and the thread waits for the Response.
SendCall(c) ==
    /\ probe.stage = "peers"
    /\ probe.call[c].waiting = 0
    /\ probe.call[c].to_send # <<>>
    /\ \E target \in {Head(probe.call[c].to_send)} :
         IF ~Accepting(target)
         THEN probe' = [probe EXCEPT !.call[c].to_send = Tail(@)]
         ELSE /\ Len(probe.backlog[target]) < MaxBacklog
              /\ probe' = [probe EXCEPT
                     !.backlog[target] = Append(@, [kind |-> "Query", opcode |-> 0,
                                                    from |-> c, table |-> {}]),
                     !.call[c].waiting = target]
    /\ PeersUnchanged

\* The Response of the listener of node n to the message it serves: the
\* sender of a Query goes on with what it has left to send; the main thread
\* that sent Gossip opcode 1 merges the table of the Response and goes on to
\* its next first node; the gossip loop does not read the Response.
Responded(p, n, from, opcode) ==
    IF from = NoCaller THEN p
    ELSE IF opcode = 0
    THEN [p EXCEPT !.call[from] = [to_send |-> Tail(@.to_send), waiting |-> 0]]
    ELSE LET merged == Merged(p, from[1], p.known[n])
         IN [p EXCEPT !.known = merged.known,
                      !.call[from] = [to_send |-> merged.to_send, waiting |-> 0],
                      !.main[from[1]].firsts = Tail(@)]

\* A turn of the loop of start_node_gossip_query_protocol at node n: the
\* next connection is accepted and its message goes to
\* receive_internal_message.  A Query (CREATE KEYSPACE and the statements
\* after it) is executed and answered.  A Gossip message is merged; if
\* reassign_data has nothing to send, it is answered, otherwise the thread
\* goes into reassign_data with the connection open.
Accept(n) ==
    /\ probe.stage = "peers"
    /\ Accepting(n)
    /\ probe.listener[n].pc = "accept"
    /\ probe.backlog[n] # <<>>
    /\ \E message \in {Head(probe.backlog[n])} :
       \E taken \in {[probe EXCEPT !.backlog[n] = Tail(@)]} :
         IF message.kind = "Query"
         THEN probe' = Responded([taken EXCEPT !.has_keyspaces[n] = TRUE], n,
                                 message.from, 0)
         ELSE \E merged \in {Merged(taken, n, message.table)} :
              \E updated \in {[taken EXCEPT !.known = merged.known]} :
                IF merged.to_send = <<>>
                THEN probe' = Responded(updated, n, message.from, message.opcode)
                ELSE probe' = [updated EXCEPT
                         !.listener[n] = [pc |-> "reassign", from |-> message.from,
                                          opcode |-> message.opcode],
                         !.call[<<n, "listener">>].to_send = merged.to_send]
    /\ PeersUnchanged

\* reassign_data has returned in the listener of node n: the Response is
\* written and the loop accepts again.
Answer(n) ==
    /\ probe.stage = "peers"
    /\ probe.listener[n].pc = "reassign"
    /\ probe.call[<<n, "listener">>] = IdleCall
    /\ probe' = [Responded(probe, n, probe.listener[n].from, probe.listener[n].opcode)
                    EXCEPT !.listener[n] = [pc |-> "accept", from |-> NoCaller,
                                            opcode |-> 0]]
    /\ PeersUnchanged

\* A turn of Node::gossip at node n that sends the table to the peer: the
\* message is written and no Response is read.
GossipSend(n) ==
    /\ probe.stage = "peers"
    /\ Accepting(n)
    /\ probe.gossips < MaxGossips
    /\ \E peer \in probe.known[n] \ {n} :
         /\ Accepting(peer)
         /\ Len(probe.backlog[peer]) < MaxBacklog
         /\ probe' = [probe EXCEPT
                !.backlog[peer] = Append(@, [kind |-> "Gossip", opcode |-> 0,
                                             from |-> NoCaller,
                                             table |-> probe.known[n]]),
                !.gossips = @ + 1]
    /\ PeersUnchanged

NextPeers ==
    \/ \E n \in NodeIds : StartNode(n)
    \/ \E n \in NodeIds : Handshake(n)
    \/ \E n \in NodeIds : RunNode(n)
    \/ \E c \in Callers : SendCall(c)
    \/ \E n \in NodeIds : Accept(n)
    \/ \E n \in NodeIds : Answer(n)
    \/ \E n \in NodeIds : GossipSend(n)

SpecPeers == InitPeers /\ [][NextPeers]_vars

\* The listener of node a waits for a Response of node b.
ListenerWaitsFor(a, b) == probe.call[<<a, "listener">>].waiting = b

\* C35: the peer listeners of two nodes never wait for a Response of each
\* other.
C35_ListenersNeverWaitForEachOther ==
    probe.stage = "peers" =>
        ~\E a \in NodeIds, b \in NodeIds :
            a # b /\ ListenerWaitsFor(a, b) /\ ListenerWaitsFor(b, a)

\* ------------------------------------------------- the locks of a node

\* The four RwLocks of Node and their place in the order of the locks.
LockRank == [gossip_table |-> 1, keyspaces |-> 2, data |-> 3, hints |-> 4]

Locks == DOMAIN LockRank

\* What a function does with the locks, in the order of its statements.
Acquire(lock, mode) == [op |-> "acquire", lock |-> lock, mode |-> mode]

Release(lock) == [op |-> "release", lock |-> lock, mode |-> "none"]

\* `match self.x.read() { Ok(x) => x.clone(), .. }`: the guard is a
\* temporary of the statement and is dropped at its end.
Cloned(lock) == <<Acquire(lock, "read"), Release(lock)>>

\* A write guard bound to a variable: held to the end of the function or
\* to its drop, with no other lock taken in between.
Written(lock) == <<Acquire(lock, "write"), Release(lock)>>

\* Node::gossip: the write guard of the gossip table is held from the
\* first statement to the return, over the send.
gossip_locks == Written("gossip_table")

\* Node::reassign_data: get_keyspaces, get_data, get_gossip_table, and
\* data.write() for the last loop.
reassign_data_locks ==
    Cloned("keyspaces") \o Cloned("data") \o Cloned("gossip_table") \o Written("data")

\* Node::update_gossip_table: the write guard is dropped before
\* reassign_data; the thread of send_hints is another thread.
update_gossip_table_locks(new_node_detected) ==
    Written("gossip_table") \o (IF new_node_detected THEN reassign_data_locks ELSE <<>>)

\* Node::send_hints: the write guard of the hints is held over the sends.
send_hints_locks == Written("hints")

\* Node::receive_internal_message: Gossip of opcode 0 and 1, and the Query
\* opcodes (create_keyspace, create_encrypted_table, insert_row, the SELECT
\* of get_table, update_row, delete_row).
receive_internal_message_locks(kind, opcode, new_node_detected) ==
    IF kind = "Gossip"
    THEN update_gossip_table_locks(new_node_detected)
             \o (IF opcode = 1 THEN Cloned("gossip_table") ELSE <<>>)
    ELSE IF opcode = 0 THEN Written("keyspaces")
    ELSE IF opcode = 3 THEN Cloned("data")
    ELSE Written("data")

\* A faulty Node::resend that takes the write guard of the hints first and
\* looks the node up in the gossip table under it.
resend_locks_hints_first(to_self, opcode, connected) ==
    IF to_self THEN receive_internal_message_locks("Query", opcode, FALSE)
    ELSE <<Acquire("hints", "write")>> \o Cloned("gossip_table") \o <<Release("hints")>>

\* Node::resend: to the node itself it is receive_internal_message;
\* otherwise get_gossip_table and, when the connection or the write fails,
\* hints.write().
resend_locks(to_self, opcode, connected) ==
    IF to_self THEN receive_internal_message_locks("Query", opcode, FALSE)
    ELSE Cloned("gossip_table") \o (IF connected THEN <<>> ELSE Written("hints"))

\* Node::get_nodes_for_insert and Node::get_nodes_for_condition.
get_nodes_for_insert_locks == Cloned("data") \o Cloned("keyspaces") \o Cloned("gossip_table")

get_nodes_for_condition_locks == Cloned("keyspaces") \o Cloned("gossip_table")

\* Node::resend_query_as_internal_message for an INSERT (opcode 2) or a
\* statement with a predicate, up to the spawn of the threads of resend.
resend_query_as_internal_message_locks(opcode) ==
    Cloned("gossip_table")
        \o (IF opcode = 2 THEN get_nodes_for_insert_locks
            ELSE IF opcode = 3 THEN Cloned("data") \o get_nodes_for_condition_locks
            ELSE get_nodes_for_condition_locks)

\* Node::flush: flush_keyspaces, then flush_data.
flush_locks == Cloned("keyspaces") \o Cloned("data")

\* The threads of a node and what each of them runs, again and again: the
\* gossip loop, the peer listener, a thread of send_hints, the thread of a
\* client connection, a thread of resend, and the flush loop.
LockThreads == {"gossip", "listener", "send_hints", "connection", "resend", "flush"}

\* The opcodes of the messages of a run: Gossip 0 and 1, and the Query
\* opcodes of CREATE KEYSPACE, CREATE TABLE and SELECT (INSERT, UPDATE and
\* DELETE take the lock that CREATE TABLE takes).
LockOpcodes == {0, 1, 3}

ProgramsOf(thread) ==
    CASE thread = "gossip" -> {gossip_locks}
      [] thread = "listener" ->
            {receive_internal_message_locks(kind, opcode, new) :
                 kind \in {"Gossip", "Query"}, opcode \in LockOpcodes, new \in BOOLEAN}
      [] thread = "send_hints" -> {send_hints_locks}
      [] thread = "connection" ->
            {resend_query_as_internal_message_locks(opcode) : opcode \in {2, 3}}
      [] thread = "resend" ->
            {resend_locks(to_self, opcode, connected) :
                 to_self \in BOOLEAN, opcode \in LockOpcodes, connected \in BOOLEAN}
      [] thread = "flush" -> {flush_locks}

InitLocks ==
    /\ gossip_table = [n \in NodeIds |-> LiveTable({n})]
    /\ up = [n \in NodeIds |-> n = 1]
    /\ keyspaces = [n \in NodeIds |-> 0]
    /\ data = [n \in NodeIds |-> NoTable]
    /\ hints = NoHints
    /\ op = NoOp
    /\ now = 1
    /\ drain = NoDrain
    /\ probe = [stage |-> "locks",
                threads |-> [t \in LockThreads |-> [program |-> <<>>, pc |-> 1]],
                held |-> [t \in LockThreads |-> {}]]
    /\ scn = [name |-> "locks", faulty |-> {}]
    /\ stops = 0
    /\ connection = NoConnection

LocksUnchanged ==
    UNCHANGED <<gossip_table, up, keyspaces, data, hints, op, now, drain, scn, stops,
                connection>>

\* The thread is at a statement of its function.
Running(t) == probe.threads[t].pc <= Len(probe.threads[t].program)

NextOp(t) == probe.threads[t].program[probe.threads[t].pc]

\* RwLock: write() waits while any other thread holds a guard, read() while
\* another thread holds the write guard.
Free(t, lock, mode) ==
    \A u \in LockThreads \ {t} :
        \A h \in probe.held[u] :
            h.lock = lock => (mode = "read" /\ h.mode = "read")

\* The thread enters a function.
Enter(t) ==
    /\ probe.stage = "locks"
    /\ ~Running(t)
    /\ \E program \in ProgramsOf(t) :
         probe' = [probe EXCEPT !.threads[t] = [program |-> program, pc |-> 1]]
    /\ LocksUnchanged

\* read() or write() returns a guard to the thread.
AcquireLock(t) ==
    /\ probe.stage = "locks"
    /\ Running(t)
    /\ NextOp(t).op = "acquire"
    /\ Free(t, NextOp(t).lock, NextOp(t).mode)
    /\ probe' = [probe EXCEPT
           !.held[t] = @ \cup {[lock |-> NextOp(t).lock, mode |-> NextOp(t).mode]},
           !.threads[t].pc = @ + 1]
    /\ LocksUnchanged

\* A guard of the thread is dropped.
ReleaseLock(t) ==
    /\ probe.stage = "locks"
    /\ Running(t)
    /\ NextOp(t).op = "release"
    /\ probe' = [probe EXCEPT
           !.held[t] = {h \in @ : h.lock # NextOp(t).lock},
           !.threads[t].pc = @ + 1]
    /\ LocksUnchanged

NextLocks ==
    \/ \E t \in LockThreads : Enter(t)
    \/ \E t \in LockThreads : AcquireLock(t)
    \/ \E t \in LockThreads : ReleaseLock(t)

SpecLocks == InitLocks /\ [][NextLocks]_vars

\* The thread is at a read() or write() of the lock.
Acquiring(t, lock) == Running(t) /\ NextOp(t).op = "acquire" /\ NextOp(t).lock = lock

\* Thread t waits for a lock of which thread u holds a guard.
WaitsOn(t, u) ==
    /\ t # u
    /\ \E lock \in Locks :
         /\ Acquiring(t, lock)
         /\ ~Free(t, lock, NextOp(t).mode)
         /\ \E h \in probe.held[u] : h.lock = lock

\* The threads that wait for a lock while they hold a guard: a cycle of
\* waiting threads is a set of them in which each waits on another of the set.
Stuck == {t \in LockThreads : probe.held[t] # {} /\ \E u \in LockThreads : WaitsOn(t, u)}

\* C36: a thread that is at the read() or write() of the gossip table, the
\* keyspaces or the data holds no guard of a lock that comes later in the
\* order gossip_table, keyspaces, data, hints; and there is no cycle of
\* threads that wait on each other.
C36_LocksTakenInOrder ==
    probe.stage = "locks" =>
        /\ \A t \in LockThreads : \A lock \in Locks \ {"hints"} :
              Acquiring(t, lock) =>
                  \A h \in probe.held[t] : LockRank[h.lock] <= LockRank[lock]
        /\ \A cycle \in SUBSET Stuck \ {{}} :
              \E t \in cycle : \A u \in cycle : ~WaitsOn(t, u)

\* The peer listener waits for the write guard of the gossip table, which
\* the gossip loop holds, while a thread of send_hints holds the hints and a
\* thread of resend that has failed to connect waits for them.
C36_Witness ==
    /\ probe.stage = "locks"
    /\ WaitsOn("listener", "gossip")
    /\ WaitsOn("resend", "send_hints")
    /\ Acquiring("connection", "gossip_table")

\* ------------------------------------------------ a turn of the gossip loop

\* Node::gossip of node `self` on its table: a table of one entry is left
\* as it is and nothing is sent; otherwise the failure detector runs and the
\* table goes to one of the entries that are Live and not the node itself,
\* to none if there is no such entry.
gossip(table, self) ==
    IF Len(table) = 1
    THEN [table |-> table, peers |-> {}]
    ELSE CHOOSE r \in {[table |-> mine,
                        peers |-> {mine[i].node_id : i \in
                                      {j \in 1..Len(mine) :
                                          /\ mine[j].node_id # self
                                          /\ mine[j].status = "Live"}}] :
                           mine \in {Suspect(table, self)}} : TRUE

NoTurn == [done |-> FALSE, before |-> <<>>, peer |-> NoNode, sent |-> <<>>]

\* A node after Node::new: alone in its table, its heartbeat of now.
InitTurn ==
    /\ gossip_table = [n \in NodeIds |-> LiveTable({n})]
    /\ up = [n \in NodeIds |-> TRUE]
    /\ keyspaces = [n \in NodeIds |-> 0]
    /\ data = [n \in NodeIds |-> NoTable]
    /\ hints = NoHints
    /\ op = NoOp
    /\ now = 1
    /\ drain = NoDrain
    /\ \E id \in NodeIds :
         probe = [stage |-> "turn", id |-> id, table |-> LiveTable({id}), turn |-> NoTurn]
    /\ scn = [name |-> "turn", faulty |-> {}]
    /\ stops = 0
    /\ connection = NoConnection

TurnUnchanged ==
    UNCHANGED <<gossip_table, up, keyspaces, data, hints, op, now, drain, scn, stops,
                connection>>

\* Time passes: every heartbeat of the table is older.
Elapse ==
    /\ probe.stage = "turn"
    /\ probe' = [probe EXCEPT !.table = Aged(probe.table), !.turn = NoTurn]
    /\ TurnUnchanged

\* A Gossip message with the entry of another node arrives and is merged
\* (update_gossip_table).
ReceiveEntry ==
    /\ probe.stage = "turn"
    /\ \E m \in NodeIds \ {probe.id}, status \in {"Live", "Dead"}, age \in 0..DeadAfter :
       \E r \in {update_gossip_table(probe.table, <<GossipInformation(m, status, age)>>)} :
         probe' = [probe EXCEPT !.table = r.table, !.turn = NoTurn]
    /\ TurnUnchanged

\* A turn of the gossip loop (start_gossip): Node::gossip with the choice of
\* the peer.
GossipTurn ==
    /\ probe.stage = "turn"
    /\ \E r \in {gossip(probe.table, probe.id)} :
       \E peer \in (IF r.peers = {} THEN {NoNode} ELSE r.peers) :
         probe' = [probe EXCEPT
                      !.table = r.table,
                      !.turn = [done |-> TRUE, before |-> probe.table, peer |-> peer,
                                sent |-> IF peer = NoNode THEN <<>> ELSE r.table]]
    /\ TurnUnchanged

NextTurn == Elapse \/ ReceiveEntry \/ GossipTurn

SpecTurn == InitTurn /\ [][NextTurn]_vars

\* The entries of a table that are Live and not the entry of node `self`.
LivePeers(table, self) ==
    {table[i].node_id : i \in {j \in 1..Len(table) :
                                  table[j].node_id # self /\ table[j].status = "Live"}}

\* C37: after a turn of the gossip loop the own entry is Live with the
\* heartbeat of now, every other entry has its status of before or has gone
\* from Live to Dead, and the table went to one of the entries that are Live
\* and not the node itself, to none if there is no such entry.
C37_TurnOfGossip ==
    (probe.stage = "turn" /\ probe.turn.done) =>
        /\ IdsOf(probe.table) = IdsOf(probe.turn.before)
        /\ EntryOf(probe.table, probe.id).status = "Live"
        /\ EntryOf(probe.table, probe.id).age = 0
        /\ \A m \in IdsOf(probe.table) \ {probe.id} :
              \/ EntryOf(probe.table, m).status = EntryOf(probe.turn.before, m).status
              \/ /\ EntryOf(probe.turn.before, m).status = "Live"
                 /\ EntryOf(probe.table, m).status = "Dead"
        /\ IF LivePeers(probe.table, probe.id) = {}
           THEN probe.turn.peer = NoNode
           ELSE /\ probe.turn.peer \in LivePeers(probe.table, probe.id)
                /\ probe.turn.sent = probe.table

\* ---------------------------------------------------------------------------
\* The _timestamp that does not parse
\* ---------------------------------------------------------------------------

\* The texts a _timestamp column holds: the coordinator's stamps and, the
\* column being an ordinary String column that an UPDATE can name after the
\* coordinator's own assignment, a text that is no date.
StampTexts == {"2024-01-01 00:00:00", "2030-01-01 12:00:00", "soon"}

StampValues == {"a", "b"}

\* NaiveDateTime::parse_from_str(timestamp_str, "%Y-%m-%d %H:%M:%S") and
\* Utc.from_utc_datetime(..).timestamp(): the seconds of the date, or Err.
parse_from_str(timestamp_str) ==
    CASE timestamp_str = "2024-01-01 00:00:00" -> [ok |-> TRUE, timestamp |-> 1704067200]
      [] timestamp_str = "2030-01-01 12:00:00" -> [ok |-> TRUE, timestamp |-> 1893499200]
      [] OTHER -> [ok |-> FALSE, timestamp |-> 0]

\* The body of a response: the JSON of a sequence of rows, or a plain text.
JsonOfRows(rows) == [rows |-> rows, text |-> ""]

PlainText(text) == [rows |-> <<>>, text |-> text]

\* The inner loop of read_repair over the rows of response i: stops at the
\* first _timestamp that does not parse.
RECURSIVE scan_rows(_, _, _, _)
scan_rows(rows, j, i, acc) ==
    IF j > Len(rows)
    THEN acc
    ELSE LET naive_dt == parse_from_str(rows[j]._timestamp)
         IN IF ~naive_dt.ok
            THEN [acc EXCEPT !.error = TRUE]
            ELSE IF naive_dt.timestamp > acc.last_timestamp
            THEN scan_rows(rows, j + 1, i,
                           [acc EXCEPT !.last_timestamp = naive_dt.timestamp,
                                       !.last_index = i,
                                       !.found_mismatch = TRUE])
            ELSE scan_rows(rows, j + 1, i, acc)

\* The outer loop of read_repair over the responses.
RECURSIVE scan_responses(_, _, _)
scan_responses(responses, i, acc) ==
    IF i > Len(responses) \/ acc.error
    THEN acc
    ELSE scan_responses(responses, i + 1, scan_rows(responses[i].rows, 1, i, acc))

\* Node::read_repair on the texts of the collected responses: the text
\* "Error parsing timestamp" as soon as a _timestamp does not parse, before
\* any thread is spawned; else the response of the greatest _timestamp, its
\* first row going as an INSERT to every node of get_nodes_for_insert.
read_repair_texts(responses, replicas) ==
    LET acc == scan_responses(responses, 1,
                              [last_timestamp |-> 0, last_index |-> 1,
                               found_mismatch |-> FALSE, error |-> FALSE])
    IN IF acc.error
       THEN [final_response |-> PlainText("Error parsing timestamp"), inserts |-> {}]
       ELSE IF acc.found_mismatch /\ responses[acc.last_index].rows # <<>>
       THEN [final_response |-> responses[acc.last_index],
             inserts |-> {[node |-> n, row |-> responses[acc.last_index].rows[1]] :
                             n \in replicas}]
       ELSE [final_response |-> responses[acc.last_index], inserts |-> {}]

\* QueryResult::parse_json_to_rows: a Rows result of one row whose one value
\* is the text handed in, whatever it is.
parse_json_to_rows(json) == [kind |-> "Rows", values |-> <<json>>]

NoSelect == [done |-> FALSE, responses |-> <<>>, issued |-> {}, result |-> [kind |-> "Void", values |-> <<>>]]

\* Three replicas of one partition (replication factor 3), none holding a row.
InitUnparsed ==
    /\ gossip_table = [n \in NodeIds |-> LiveTable(NodeIds)]
    /\ up = [n \in NodeIds |-> TRUE]
    /\ keyspaces = [n \in NodeIds |-> 0]
    /\ data = [n \in NodeIds |-> NoTable]
    /\ hints = NoHints
    /\ op = NoOp
    /\ now = 1
    /\ drain = NoDrain
    /\ scn = [name |-> "unparsed", faulty |-> {}]
    /\ stops = 0
    /\ connection = NoConnection
    /\ probe = [stage |-> "unparsed", store |-> [n \in NodeIds |-> <<>>],
                pending |-> {}, select |-> NoSelect]

UnparsedUnchanged ==
    UNCHANGED <<gossip_table, up, keyspaces, data, hints, op, now, drain, scn, stops,
                connection>>

\* A replica executes a stamped write of the one row of the partition: an
\* INSERT or an UPDATE whose _timestamp is the coordinator's, or an UPDATE
\* whose SET names _timestamp itself.
WriteRow ==
    /\ probe.stage = "unparsed"
    /\ \E n \in NodeIds, v \in StampValues, t \in StampTexts :
         probe' = [probe EXCEPT !.store[n] = <<[v |-> v, _timestamp |-> t]>>,
                                !.select = NoSelect]
    /\ UnparsedUnchanged

\* The Select arm of resend_query_as_internal_message once the consistency
\* level is met: the responses collected, in the order of their arrival, go
\* through read_repair and its text through parse_json_to_rows.
SelectPartition ==
    /\ probe.stage = "unparsed"
    /\ probe.pending = {}
    /\ \E answered \in SUBSET NodeIds \ {{}} :
       \E order \in Orders(answered) :
       \E responses \in {[i \in 1..Len(order) |-> JsonOfRows(probe.store[order[i]])]} :
       \E r \in {read_repair_texts(responses, NodeIds)} :
         probe' = [probe EXCEPT
                      !.pending = r.inserts,
                      !.select = [done |-> TRUE, responses |-> responses,
                                  issued |-> r.inserts,
                                  result |-> parse_json_to_rows(r.final_response)]]
    /\ UnparsedUnchanged

\* A thread spawned by read_repair: the INSERT of the newest row at one node.
RepairWrite ==
    /\ probe.stage = "unparsed"
    /\ \E ins \in probe.pending :
         probe' = [probe EXCEPT !.store[ins.node] = <<ins.row>>,
                                !.pending = probe.pending \ {ins}]
    /\ UnparsedUnchanged

NextUnparsed == WriteRow \/ SelectPartition \/ RepairWrite

SpecUnparsed == InitUnparsed /\ [][NextUnparsed]_vars

\* A collected response holds a _timestamp that does not parse.
HoldsUnparsed(responses) ==
    \E i \in 1..Len(responses) : \E j \in 1..Len(responses[i].rows) :
        ~parse_from_str(responses[i].rows[j]._timestamp).ok

\* C38: when a _timestamp of a response collected for a SELECT does not
\* parse, no write of read repair is issued and the result the client gets
\* holds the rows of one of the collected responses.
C38_UnparsedStampStillAnswers ==
    (probe.stage = "unparsed" /\ probe.select.done
        /\ HoldsUnparsed(probe.select.responses)) =>
        /\ probe.select.issued = {}
        /\ probe.select.result.kind = "Rows"
        /\ \E i \in 1..Len(probe.select.responses) :
              probe.select.result.values = <<probe.select.responses[i]>>

\* ---------------------------------------------------------------------------
\* The transformation of the frames of a client connection
\* ---------------------------------------------------------------------------

\* a ^ b on two bytes.
Xor8(a, b) ==
    LET bit(i) == (((a \div (2 ^ i)) % 2) + ((b \div (2 ^ i)) % 2)) % 2
    IN bit(0) + 2 * bit(1) + 4 * bit(2) + 8 * bit(3)
       + 16 * bit(4) + 32 * bit(5) + 64 * bit(6) + 128 * bit(7)

\* u8::rotate_left and u8::rotate_right.
rotate_left(byte, n) ==
    ((byte * (2 ^ (n % 8))) % 256) + (byte \div (2 ^ (8 - (n % 8))))

rotate_right(byte, n) == rotate_left(byte, 8 - (n % 8))

\* encrypt of base_encryption_functions.rs: every byte is XORed with the low
\* byte of the key, complemented, rotated left by key % 8 and right by half
\* of that.
encrypt(bytes, key) ==
    LET shift_amount == key % 8
    IN [i \in 1..Len(bytes) |->
           rotate_right(rotate_left(255 - Xor8(bytes[i], key % 256), shift_amount),
                        shift_amount \div 2)]

\* decrypt of base_encryption_functions.rs: the steps of encrypt undone in
\* the opposite order.
decrypt(bytes, key) ==
    LET shift_amount == key % 8
    IN [i \in 1..Len(bytes) |->
           Xor8(255 - rotate_right(rotate_left(bytes[i], shift_amount \div 2),
                                   shift_amount),
                key % 256)]

\* A faulty EncryptionHandler::write: the bytes of the frame go out as they are.
handler_write_plain(shared_secret, bytes) == bytes

\* EncryptionHandler::write: the bytes of the frame, encrypted when the
\* handler holds a shared secret.
handler_write(shared_secret, bytes) ==
    IF shared_secret.some THEN encrypt(bytes, shared_secret.value) ELSE bytes

\* EncryptionHandler::get_decryptor applied to bytes of the stream.
get_decryptor(shared_secret, bytes) ==
    IF shared_secret.some THEN decrypt(bytes, shared_secret.value) ELSE bytes

\* The frame of a response (Frame of version ResponseV3 with the opcode of
\* the message): an ERROR carries its code, a RESULT its kind, an
\* AUTH_CHALLENGE the public key, the prime and the base.
ServerFrame(response, private_key) ==
    CASE response.kind = "ERROR" ->
             ClientFrame(131, 0, be32(CASE response.code = "ServerError" -> 0
                                        [] response.code = "ProtocolError" -> 10
                                        [] response.code = "BadCredentials" -> 256
                                        [] response.code = "UnavailableException" -> 4096
                                        [] OTHER -> 8704))
      [] response.kind = "AUTHENTICATE" -> ClientFrame(131, 3, <<>>)
      [] response.kind = "SUPPORTED" -> ClientFrame(131, 6, <<>>)
      [] response.kind = "RESULT" ->
             ClientFrame(131, 8, be32(IF response.result = "Void" THEN 1 ELSE 3))
      [] response.kind = "AUTH_CHALLENGE" ->
             ClientFrame(131, 14,
                         be64(generate_public_key(private_key, EncryptionHandlerBase,
                                                  EncryptionHandlerPrime))
                         \o be64(EncryptionHandlerPrime) \o be64(EncryptionHandlerBase))
      [] response.kind = "AUTH_SUCCESS" -> ClientFrame(131, 16, <<>>)
      [] OTHER -> ClientFrame(131, 2, <<>>)

\* The frames of the client of a channel: STARTUP, AUTH_RESPONSE with the
\* public key 2 and a claimed secret, QUERY.
ChannelFrames ==
    {ClientFrame(3, 1, <<1>>), ClientFrame(3, 7, <<1>>)}
    \cup {ClientFrame(3, 15, be64(2) \o be64(x)) : x \in {2, 4}}

\* The secret an AUTH_RESPONSE of the client claims, if it is one.
ClaimedBy(frame) ==
    IF frame.opcode = 15 THEN Some(from_be_bytes(SubSeq(frame.body, 9, 16))) ELSE None

\* The answers of the node to the statement of a channel.
ChannelAnswers == {[kind |-> "RESULT", result |-> "Void"], Error("Invalid")}

InitChannel ==
    /\ gossip_table = [n \in NodeIds |-> IF n <= 2 THEN LiveTable(1..2) ELSE LiveTable({n})]
    /\ up = [n \in NodeIds |-> n <= 2]
    /\ keyspaces = [n \in NodeIds |-> IF n <= 2 THEN 2 ELSE 0]
    /\ data = [n \in NodeIds |-> IF n <= 2 THEN Schema ELSE NoTable]
    /\ hints = NoHints
    /\ op = NoOp
    /\ now = 1
    /\ drain = NoDrain
    /\ stops = 0
    /\ scn = [name |-> "channel"]
    /\ connection = NoConnection
    /\ \E private_key \in 1..MaxPrivateKey :
         probe = [stage |-> "channel", open |-> TRUE,
                  connection_state |-> "Uninitialized", private_key |-> private_key,
                  shared_secret |-> None, wire |-> <<>>, sent |-> 0, key |-> None,
                  log |-> <<>>]

ChannelUnchanged ==
    UNCHANGED <<gossip_table, up, keyspaces, data, hints, op, now, drain, scn, stops,
                connection>>

\* The client writes a frame to the stream, as it is or encrypted with the
\* secret it claimed last.
ChannelWrite ==
    /\ probe.stage = "channel"
    /\ probe.open
    /\ probe.sent < MaxFrames
    /\ \E frame \in ChannelFrames, key \in {None, probe.key} :
         probe' = [probe EXCEPT !.wire = @ \o (IF key.some
                                                 THEN encrypt(serialize(frame), key.value)
                                                 ELSE serialize(frame)),
                                !.sent = @ + 1,
                                !.key = IF ClaimedBy(frame).some THEN ClaimedBy(frame)
                                        ELSE @]
    /\ ChannelUnchanged

\* Connection::connection_loop with the reads and writes of the
\* EncryptionHandler: the frame is read through get_decryptor, handled
\* (attempt_initialize stores the shared secret when the claimed one is
\* right), and the response goes out through EncryptionHandler::write.  The
\* log keeps the bytes that waited in the stream, the request made of them,
\* the response and the bytes written.
ChannelServe ==
    /\ probe.stage = "channel"
    /\ probe.open
    /\ \E read \in {deserialize_from_stream(get_decryptor(probe.shared_secret, probe.wire))} :
         /\ ~read.blocked
         /\ \E answer \in ChannelAnswers :
            \E r \in {handle_request(probe.connection_state, read.message,
                                     probe.private_key, answer)} :
            \E secret \in {IF r.connection_state = "Ready" /\ r.claimed.some
                           THEN Some(generate_shared_secret(r.claimed.value.public_key,
                                                            probe.private_key,
                                                            EncryptionHandlerPrime))
                           ELSE probe.shared_secret} :
            \E written \in {IF r.panic THEN <<>>
                            ELSE handler_write(secret,
                                     serialize(ServerFrame(r.response, probe.private_key)))} :
              probe' = [probe EXCEPT
                          !.open = ~r.panic,
                          !.connection_state = r.connection_state,
                          !.shared_secret = secret,
                          !.wire = SubSeq(probe.wire, Len(probe.wire) - Len(read.rest) + 1,
                                          Len(probe.wire)),
                          !.log = Append(@, [wire |-> probe.wire,
                                             request |-> read.message,
                                             before |-> probe.connection_state,
                                             after |-> r.connection_state,
                                             response |-> r.response,
                                             claimed |-> r.claimed,
                                             written |-> written])]
    /\ ChannelUnchanged

NextChannel == ChannelWrite \/ ChannelServe

SpecChannel == InitChannel /\ [][NextChannel]_vars

\* The entries of the log that answered AUTH_SUCCESS, up to entry i.
SuccessesUpTo(i) == {j \in 1..i : probe.log[j].response.kind = "AUTH_SUCCESS"}

\* The secret of the handshake that succeeded at entry j, computed from the
\* public key its AUTH_RESPONSE carried.
HandshakeSecret(j) ==
    (from_be_bytes(SubSeq(probe.log[j].request.body, 1, 8)) ^ probe.private_key)
        % EncryptionHandlerPrime

\* C39: the frames of a client connection are transformed with the shared
\* secret exactly from the AUTH_SUCCESS on: the request of a frame is what
\* the transformed bytes of the stream hold when a handshake succeeded
\* before it and what the bytes themselves hold otherwise; the bytes of a
\* response are the transformed frame when a handshake has succeeded by
\* then, AUTH_SUCCESS included, and the frame itself otherwise,
\* BAD_CREDENTIALS and what follows a failed attempt included; and the
\* transformed bytes of a frame are never the frame itself.
C39_TransformedIffHandshakeSucceeded ==
    probe.stage = "channel" =>
      \A i \in 1..Len(probe.log) :
        LET e == probe.log[i]
            frame == serialize(ServerFrame(e.response, probe.private_key))
        IN /\ IF SuccessesUpTo(i - 1) # {}
              THEN \E j \in SuccessesUpTo(i - 1) :
                     e.request = deserialize_from_stream(
                                     decrypt(e.wire, HandshakeSecret(j))).message
              ELSE e.request = deserialize_from_stream(e.wire).message
           /\ IF SuccessesUpTo(i) # {}
              THEN \E j \in SuccessesUpTo(i) :
                     /\ e.written = encrypt(frame, HandshakeSecret(j))
                     /\ e.written # frame
              ELSE e.written = frame

\* A handshake succeeded, and a QUERY that the client wrote encrypted was
\* served after it.
C39_Witness ==
    /\ probe.stage = "channel"
    /\ \E j \in 1..Len(probe.log) :
         /\ probe.log[j].response.kind = "AUTH_SUCCESS"
         /\ \E i \in (j + 1)..Len(probe.log) :
              /\ probe.log[i].request.kind = "QUERY"
              /\ probe.log[i].response.kind = "RESULT"

\* ---------------------------------------------------------------------------
\* The errors of the stream of a client connection
\* ---------------------------------------------------------------------------

\* The number of turns of the loop of handle_native_protocol_connection in a run.
MaxReads == 3

\* The kinds of io::Error that a read or a write of the stream returns.
ErrorKinds == {"ConnectionReset", "ConnectionAborted", "TimedOut", "UnexpectedEof",
               "BrokenPipe"}

\* is_legitimate_error of native_protocol.rs.
is_legitimate_error(kind) ==
    kind \notin {"ConnectionReset", "ConnectionAborted", "TimedOut"}

\* Connection::connection_error: Ok(()) for an error that is not legitimate;
\* else the server error frame is written (write_server_error, the result of
\* the write dropped) and the error returned.
connection_error(kind) ==
    IF ~is_legitimate_error(kind)
    THEN [result |-> "Ok", error_frame |-> FALSE]
    ELSE [result |-> "Err", error_frame |-> TRUE]

\* The end of connection_loop after a request was handled: an error of the
\* write of the response is returned only if it is legitimate.
write_result(written) ==
    IF written # "Ok" /\ is_legitimate_error(written) THEN "Err" ELSE "Ok"

\* The requests of the client of a handler.
HandlerMessages ==
    {[kind |-> "STARTUP", valid |-> TRUE], [kind |-> "OPTIONS"], [kind |-> "QUERY"],
     [kind |-> "AUTH_RESPONSE", body |-> be64(2) \o be64(2)]}

InitHandler ==
    /\ gossip_table = [n \in NodeIds |-> IF n <= 2 THEN LiveTable(1..2) ELSE LiveTable({n})]
    /\ up = [n \in NodeIds |-> n <= 2]
    /\ keyspaces = [n \in NodeIds |-> IF n <= 2 THEN 2 ELSE 0]
    /\ data = [n \in NodeIds |-> IF n <= 2 THEN Schema ELSE NoTable]
    /\ hints = NoHints
    /\ op = NoOp
    /\ now = 1
    /\ drain = NoDrain
    /\ stops = 0
    /\ scn = [name |-> "handler"]
    /\ connection = NoConnection
    /\ \E private_key \in 1..MaxPrivateKey :
         probe = [stage |-> "handler", running |-> TRUE, returned |-> "none",
                  connection_state |-> "Uninitialized", private_key |-> private_key,
                  turns |-> <<>>]

HandlerUnchanged ==
    UNCHANGED <<gossip_table, up, keyspaces, data, hints, op, now, drain, scn, stops,
                connection>>

\* A turn of the loop of handle_native_protocol_connection whose read returns
\* a frame: the request is handled and the response written; the handler
\* returns if connection_loop returned an error.
ServeRequest ==
    /\ probe.stage = "handler"
    /\ probe.running
    /\ Len(probe.turns) < MaxReads
    /\ \E message \in HandlerMessages, answer \in ChannelAnswers,
          written \in {"Ok"} \cup ErrorKinds :
       \E r \in {handle_request(probe.connection_state, message, probe.private_key,
                                answer)} :
       \E result \in {write_result(written)} :
         probe' = [probe EXCEPT
                      !.running = result = "Ok",
                      !.returned = IF result = "Ok" THEN @ ELSE "Err",
                      !.connection_state = r.connection_state,
                      !.turns = Append(@, [read |-> "Ok", written |-> written,
                                           error_frame |-> FALSE,
                                           running |-> result = "Ok"])]
    /\ HandlerUnchanged

\* A turn of the loop whose read returns an error: connection_error decides,
\* and the loop goes on when it returned Ok(()).
ReadError ==
    /\ probe.stage = "handler"
    /\ probe.running
    /\ Len(probe.turns) < MaxReads
    /\ \E kind \in ErrorKinds :
       \E r \in {connection_error(kind)} :
         probe' = [probe EXCEPT
                      !.running = r.result = "Ok",
                      !.returned = IF r.result = "Ok" THEN @ ELSE "Err",
                      !.turns = Append(@, [read |-> kind, written |-> "none",
                                           error_frame |-> r.error_frame,
                                           running |-> r.result = "Ok"])]
    /\ HandlerUnchanged

NextHandler == ServeRequest \/ ReadError

SpecHandler == InitHandler /\ [][NextHandler]_vars

\* C40: after a read error the handler of the connection has terminated:
\* without an error frame when the kind is ConnectionReset, ConnectionAborted
\* or TimedOut, as a failure for every other kind.
C40_ReadErrorEndsHandler ==
    probe.stage = "handler" =>
      \A i \in 1..Len(probe.turns) :
        LET turn == probe.turns[i]
        IN turn.read \in ErrorKinds =>
             /\ ~turn.running
             /\ i = Len(probe.turns)
             /\ turn.read \in {"ConnectionReset", "ConnectionAborted", "TimedOut"}
                   => ~turn.error_frame
             /\ is_legitimate_error(turn.read) => probe.returned = "Err"

====
